---- MODULE Spec2Model ----
(***************************************************************************)
(* PCDB v3 postcode database: the PostcodeNormalizer, the VarintUtils      *)
(* codec, the BitWriter / BitReader bit streams, the PostcodeEncoder       *)
(* (encodeFromRecords) and the PostcodeClient reader (constructor, lookup, *)
(* enumerateOutward, getOutwardList), modelled byte for byte.              *)
(*                                                                         *)
(* Conventions of the model                                                *)
(*  - a string is a sequence of character codes (UTF-16 code units);       *)
(*    Str(<<"M","1">>) writes one from one-character strings;              *)
(*  - a Buffer is a sequence of bytes 0..255; byte offset k of the code is *)
(*    element k+1 of the sequence;                                         *)
(*  - a coordinate of an input record is an integer number of              *)
(*    micro-degrees (lat = 53480800 stands for the double 53.4808), so     *)
(*    that Math.round(lat * 100000) is a real rounding; a coordinate of a  *)
(*    result is the integer n of the double n / 100000;                    *)
(*  - null is Null, a thrown Error is Thrown.                              *)
(***************************************************************************)
EXTENDS Integers, Sequences, FiniteSets, TLC

VARIABLES
    records,          \* argument of the last encodeFromRecords call, or the rows encode() read
    outwardData,      \* PostcodeEncoder.outwardData (Map, in insertion order)
    globalLatOffset,  \* PostcodeEncoder.globalLatOffset
    globalLonOffset,  \* PostcodeEncoder.globalLonOffset
    reused,           \* whether the encoder held other records when that call began
    encoded,          \* what the last encodeFromRecords or encode call returned or threw
    client,           \* the PostcodeClient under construction / constructed
    query,            \* the last query: operation, argument, result
    bitWriter,        \* a BitWriter: buffer, currentByte, bitPosition
    written,          \* what was written to it: value, width and bit offset of each call
    bitReader,        \* a BitReader on the writer's buffer: buffer, bitOffset
    bitCall,          \* the last BitReader call: operation, argument, offset before, result
    varintCall,       \* the last VarintUtils call: operation, argument, result
    parseCall,        \* the last PostcodeNormalizer call: operation, argument, result
    csvFilePath,      \* PostcodeEncoder.csvFilePath
    encodeCall        \* the last encoder call: operation, and for encode() what it began with

vars == <<records, outwardData, globalLatOffset, globalLonOffset, reused, encoded, client, query,
          bitWriter, written, bitReader, bitCall, varintCall, parseCall, csvFilePath, encodeCall>>

\* the variables of the bit streams, and those of the encoder and the reader
bitVars == <<bitWriter, written, bitReader, bitCall>>
codecVars == <<records, outwardData, globalLatOffset, globalLonOffset, reused, encoded, client, query,
               csvFilePath, encodeCall>>

Null == [tag |-> "null"]
Thrown == [tag |-> "throw"]

\* a Buffer a call produced, or the fact that the call threw instead
Ok(bytes) == [ok |-> TRUE, bytes |-> bytes]
Fail == [ok |-> FALSE, bytes |-> <<>>]

(***************************************************************************)
(* Generic sequence and integer helpers                                    *)
(***************************************************************************)
Min(a, b) == IF a <= b THEN a ELSE b
Max(a, b) == IF a >= b THEN a ELSE b

\* the least 32-bit integer, -2^31
MinInt32 == -2147483647 - 1

RECURSIVE Pow2(_)
Pow2(n) == IF n = 0 THEN 1 ELSE 2 * Pow2(n - 1)

\* s.slice(from, to) with 0-based from (inclusive) and to (exclusive), clamped
Slice(s, from, to) ==
    LET f == Max(0, from)
        t == Min(Len(s), to)
    IN IF t <= f THEN <<>> ELSE SubSeq(s, f + 1, t)

Repeat(x, n) == IF n <= 0 THEN <<>> ELSE [i \in 1..n |-> x]

\* the concatenation of a sequence of sequences, by halves
RECURSIVE Concat(_)
Concat(ss) ==
    IF Len(ss) = 0 THEN <<>>
    ELSE IF Len(ss) = 1 THEN ss[1]
    ELSE Concat(SubSeq(ss, 1, Len(ss) \div 2)) \o Concat(SubSeq(ss, (Len(ss) \div 2) + 1, Len(ss)))

\* the sum of a sequence of integers, by halves
RECURSIVE SumSeq(_)
SumSeq(xs) ==
    IF Len(xs) = 0 THEN 0
    ELSE IF Len(xs) = 1 THEN xs[1]
    ELSE SumSeq(SubSeq(xs, 1, Len(xs) \div 2)) + SumSeq(SubSeq(xs, (Len(xs) \div 2) + 1, Len(xs)))

\* JavaScript's a & b and a | b on non-negative integers below 2^31
RECURSIVE BitAnd(_, _)
BitAnd(a, b) ==
    IF a = 0 \/ b = 0 THEN 0
    ELSE (a % 2) * (b % 2) + 2 * BitAnd(a \div 2, b \div 2)

RECURSIVE BitOr(_, _)
BitOr(a, b) ==
    IF a = 0 THEN b
    ELSE IF b = 0 THEN a
    ELSE Max(a % 2, b % 2) + 2 * BitOr(a \div 2, b \div 2)

\* x << k as JavaScript computes it, a signed 32-bit integer, for x >= 0 and
\* 0 <= k <= 31: the bits of x that stay below bit 31, and bit 31 as the sign
ShiftLeft32(x, k) ==
    IF k = 0 THEN x
    ELSE LET top == Pow2(31 - k)
             low == x % top
         IN (IF low = 0 THEN 0 ELSE low * Pow2(k))
            + (IF (x \div top) % 2 = 1 THEN MinInt32 ELSE 0)

(***************************************************************************)
(* Characters and strings                                                  *)
(***************************************************************************)
UpperLetters == <<"A","B","C","D","E","F","G","H","I","J","K","L","M",
                  "N","O","P","Q","R","S","T","U","V","W","X","Y","Z">>
LowerLetters == <<"a","b","c","d","e","f","g","h","i","j","k","l","m",
                  "n","o","p","q","r","s","t","u","v","w","x","y","z">>
DigitChars == <<"0","1","2","3","4","5","6","7","8","9">>

IndexIn(seq, ch) == IF \E i \in 1..Len(seq) : seq[i] = ch
                    THEN CHOOSE i \in 1..Len(seq) : seq[i] = ch
                    ELSE 0

\* the code unit of a one-character string of the model's alphabet
Ord(ch) ==
    IF IndexIn(UpperLetters, ch) > 0 THEN 64 + IndexIn(UpperLetters, ch)
    ELSE IF IndexIn(LowerLetters, ch) > 0 THEN 96 + IndexIn(LowerLetters, ch)
    ELSE IF IndexIn(DigitChars, ch) > 0 THEN 47 + IndexIn(DigitChars, ch)
    ELSE IF ch = " " THEN 32
    ELSE IF ch = "\t" THEN 9
    ELSE 45  \* "-"

Str(chars) == [i \in 1..Len(chars) |-> Ord(chars[i])]

\* a normalisation that forgets to upper-case its argument
toUpperCase_Unchanged(c) == c

\* String.prototype.toUpperCase on one code unit (ASCII range)
toUpperCase(c) == IF c >= 97 /\ c <= 122 THEN c - 32 ELSE c

\* the class \s of the regular expression, on the ASCII range
IsWhitespace(c) == c \in {9, 10, 11, 12, 13, 32}

RECURSIVE RemoveWhitespace(_)
RemoveWhitespace(s) ==
    IF s = <<>> THEN <<>>
    ELSE (IF IsWhitespace(Head(s)) THEN <<>> ELSE <<Head(s)>>) \o RemoveWhitespace(Tail(s))

\* strict order of strings by UTF-16 code units (Array.prototype.sort default)
RECURSIVE StrLess(_, _)
StrLess(a, b) ==
    IF b = <<>> THEN FALSE
    ELSE IF a = <<>> THEN TRUE
    ELSE IF Head(a) # Head(b) THEN Head(a) < Head(b)
    ELSE StrLess(Tail(a), Tail(b))

(***************************************************************************)
(* PostcodeNormalizer                                                      *)
(***************************************************************************)
UNIT_CHARS == Str(UpperLetters)

\* String.prototype.indexOf for one character: 0-based position, or -1
indexOf(s, c) == IF \E i \in 1..Len(s) : s[i] = c
                 THEN (CHOOSE i \in 1..Len(s) : s[i] = c) - 1
                 ELSE -1

\* a parseInt that takes the character after "9" for a digit
parseInt_UpToColon(c) == IF c >= 48 /\ c <= 58 THEN c - 48 ELSE -1

\* parseInt(ch, 10) of a one-character string: the digit, or -1 for NaN
parseInt(c) == IF c >= 48 /\ c <= 57 THEN c - 48 ELSE -1

unitToIndex(unit) ==
    IF Len(unit) # 2 THEN -1
    ELSE LET firstIndex == indexOf(UNIT_CHARS, unit[1])
             secondIndex == indexOf(UNIT_CHARS, unit[2])
         IN IF firstIndex = -1 \/ secondIndex = -1 THEN -1
            ELSE firstIndex * 26 + secondIndex

parseComponents(outward, inward) ==
    LET sector == parseInt(inward[1])
        unitIndex == unitToIndex(Slice(inward, 1, 3))
    IN IF sector = -1 THEN Null
       ELSE IF unitIndex = -1 THEN Null
       ELSE [tag |-> "parsed", outward |-> outward, sector |-> sector, unitIndex |-> unitIndex]

parsePostcode(postcode) ==
    IF postcode = <<>> THEN Null
    ELSE LET upper == [i \in 1..Len(postcode) |-> toUpperCase(postcode[i])]
             normalized == RemoveWhitespace(upper)
         IN IF Len(normalized) < 4 THEN Null
            ELSE LET inward == Slice(normalized, Len(normalized) - 3, Len(normalized))
                     outward == Slice(normalized, 0, Len(normalized) - 3)
                 IN IF outward = <<>> \/ Len(inward) # 3 THEN Null
                    ELSE parseComponents(outward, inward)

indexToUnit(index) ==
    IF index < 0 \/ index >= 676 THEN <<>>
    ELSE <<UNIT_CHARS[(index \div 26) + 1], UNIT_CHARS[(index % 26) + 1]>>

(***************************************************************************)
(* VarintUtils: unsigned LEB128 and the delta sequence                     *)
(***************************************************************************)
\* the loop of encode: while (value >= 0x80) push; value >>>= 7
RECURSIVE VarintBytes(_)
VarintBytes(value) ==
    IF value >= 128 THEN <<BitOr(BitAnd(value, 127), 128)>> \o VarintBytes(value \div 128)
    ELSE <<BitAnd(value, 127)>>

VarintUtils_encode(value) == IF value < 0 THEN Fail ELSE Ok(VarintBytes(value))

\* the loop of decode from byte offset + bytesRead on
RECURSIVE VarintDecodeLoop(_, _, _, _, _)
VarintDecodeLoop(buffer, offset, value, shift, bytesRead) ==
    IF ~(offset + bytesRead < Len(buffer)) THEN Thrown  \* "Incomplete varint"
    ELSE LET byte == buffer[offset + bytesRead + 1]
             v == BitOr(value, ShiftLeft32(BitAnd(byte, 127), shift))
         IN IF BitAnd(byte, 128) = 0 THEN [tag |-> "varint", value |-> v, bytesRead |-> bytesRead + 1]
            ELSE IF shift + 7 >= 32 THEN Thrown  \* "Varint too long"
            ELSE VarintDecodeLoop(buffer, offset, v, shift + 7, bytesRead + 1)

VarintUtils_decode(buffer, offset) == VarintDecodeLoop(buffer, offset, 0, 0, 0)

\* floor(log2(value)) for value >= 1
RECURSIVE FloorLog2(_)
FloorLog2(value) == IF value <= 1 THEN 0 ELSE 1 + FloorLog2(value \div 2)

getByteLength(value) ==
    IF value < 0 THEN Thrown
    ELSE IF value = 0 THEN 1
    ELSE 1 + (FloorLog2(value) \div 7)

\* Buffer.concat of the parts, unless producing one of them threw
Cat(parts) ==
    IF \E i \in 1..Len(parts) : ~parts[i].ok THEN Fail
    ELSE Ok(Concat([i \in 1..Len(parts) |-> parts[i].bytes]))

\* encode(delta) throws on a negative delta ("Delta sequence requires sorted values")
encodeDeltaSequence(values) ==
    IF Len(values) = 0 THEN Ok(<<>>)
    ELSE Cat([i \in 1..Len(values) |->
                VarintUtils_encode(IF i = 1 THEN values[1] ELSE values[i] - values[i - 1])])

\* one pass of the decoding loop: the next varint is the first value or a delta
DecodeDeltaStep(buffer, st) ==
    LET d == VarintUtils_decode(buffer, st.currentOffset)
    IN IF d = Thrown THEN Thrown
       ELSE [values |-> Append(st.values, IF st.values = <<>> THEN d.value
                                          ELSE st.values[Len(st.values)] + d.value),
             currentOffset |-> st.currentOffset + d.bytesRead,
             totalBytesRead |-> st.totalBytesRead + d.bytesRead]

\* passes lo..hi of the decoding loop, by halves
RECURSIVE DecodeDeltaLoop(_, _, _, _)
DecodeDeltaLoop(buffer, st, lo, hi) ==
    IF st = Thrown \/ lo > hi THEN st
    ELSE IF lo = hi THEN DecodeDeltaStep(buffer, st)
    ELSE LET first == DecodeDeltaLoop(buffer, st, lo, (lo + hi) \div 2)
         IN IF first = Thrown THEN Thrown
            ELSE DecodeDeltaLoop(buffer, first, ((lo + hi) \div 2) + 1, hi)

DecodedValues(st) ==
    IF st = Thrown THEN Thrown
    ELSE [tag |-> "values", values |-> st.values, bytesRead |-> st.totalBytesRead]

decodeDeltaSequence(buffer, offset, count) ==
    DecodedValues(DecodeDeltaLoop(buffer,
                      [values |-> <<>>, currentOffset |-> offset, totalBytesRead |-> 0],
                      1, count))

\* A JavaScript number n >= 0 past the integers of TLC, as [high, low31] with
\* n = high * 2^31 + low31 and 0 <= low31 < 2^31
Number(high, low31) == [high |-> high, low31 |-> low31]

\* a - b of two such numbers
NumberMinus(a, b) ==
    IF a.low31 >= b.low31 THEN Number(a.high - b.high, a.low31 - b.low31)
    ELSE Number(a.high - b.high - 1, ((a.low31 - b.low31) + 2147483647) + 1)

\* encode of such a number: below 2^31 as above; else the first pass of the
\* loop pushes (value & 0x7f) | 0x80, value >>>= 7 leaves the bits 7..31 of
\* the number, and the loop goes on with those
EncodeNumber(v) ==
    IF v.high < 0 THEN Fail
    ELSE IF v.high = 0 THEN VarintUtils_encode(v.low31)
    ELSE Ok(<<BitOr(BitAnd(v.low31, 127), 128)>>
            \o VarintBytes((v.high % 2) * Pow2(24) + v.low31 \div 128))

\* getByteLength of such a number: floor(log2) is 31 from 2^31 and 32 from 2^32
NumberByteLength(v) ==
    IF v.high < 0 THEN Thrown
    ELSE IF v.high = 0 THEN getByteLength(v.low31)
    ELSE 1 + ((IF v.high = 1 THEN 31 ELSE 32) \div 7)

\* encodeDeltaSequence of a list of such numbers
EncodeNumberSequence(values) ==
    IF Len(values) = 0 THEN Ok(<<>>)
    ELSE Cat([i \in 1..Len(values) |->
                EncodeNumber(IF i = 1 THEN values[1] ELSE NumberMinus(values[i], values[i - 1]))])

(***************************************************************************)
(* BitWriter (LSB first)                                                   *)
(***************************************************************************)
NewBitWriter == [buffer |-> <<>>, currentByte |-> 0, bitPosition |-> 0]

\* the while loop of writeBits
RECURSIVE WriteBitsLoop(_, _, _)
WriteBitsLoop(w, remainingValue, remainingBits) ==
    IF remainingBits <= 0 THEN w
    ELSE LET bitsToWrite == Min(remainingBits, 8 - w.bitPosition)
             mask == Pow2(bitsToWrite) - 1
             bitsValue == BitAnd(remainingValue, mask)
             byte == BitOr(w.currentByte, bitsValue * Pow2(w.bitPosition))
             pos == w.bitPosition + bitsToWrite
             w2 == IF pos >= 8
                   THEN [buffer |-> Append(w.buffer, byte), currentByte |-> 0, bitPosition |-> 0]
                   ELSE [buffer |-> w.buffer, currentByte |-> byte, bitPosition |-> pos]
         IN WriteBitsLoop(w2, remainingValue \div Pow2(bitsToWrite), remainingBits - bitsToWrite)

writeBits(w, value, bitCount) ==
    IF bitCount < 0 \/ bitCount > 32 THEN Thrown
    ELSE IF bitCount = 0 THEN w
    ELSE WriteBitsLoop(w, value, bitCount)

padToByte(w) ==
    IF w.bitPosition > 0
    THEN [buffer |-> Append(w.buffer, w.currentByte), currentByte |-> 0, bitPosition |-> 0]
    ELSE w

getBuffer(w) == padToByte(w).buffer

\* buffer.length * 8 + bitPosition
getBitOffset(w) == Len(w.buffer) * 8 + w.bitPosition

\* ToInt32 of a number 0 <= v < 2^32 given as [bit31, low31], v = bit31 * 2^31 + low31:
\* what the operators & and >>= of writeBits make of their left operand
ToInt32(v) == IF v.bit31 = 1 THEN v.low31 + MinInt32 ELSE v.low31

(***************************************************************************)
(* BitReader (LSB first): readBits at a bit offset of the buffer           *)
(***************************************************************************)
RECURSIVE ReadBitsLoop(_, _, _, _, _)
ReadBitsLoop(buffer, bitOffset, numBits, result, bitsRead) ==
    IF ~(bitsRead < numBits) THEN [tag |-> "bits", value |-> result, bitOffset |-> bitOffset]
    ELSE LET byteIndex == bitOffset \div 8
             bitIndex == bitOffset % 8
         IN IF byteIndex >= Len(buffer) THEN Thrown  \* "Attempted to read beyond buffer"
            ELSE LET byte == buffer[byteIndex + 1]
                     bitsInThisByte == Min(8 - bitIndex, numBits - bitsRead)
                     mask == Pow2(bitsInThisByte) - 1
                     bits == BitAnd(byte \div Pow2(bitIndex), mask)
                 IN ReadBitsLoop(buffer, bitOffset + bitsInThisByte, numBits,
                                 BitOr(result, ShiftLeft32(bits, bitsRead)), bitsRead + bitsInThisByte)

readBits(buffer, bitOffset, numBits) ==
    IF numBits < 0 \/ numBits > 32 THEN Thrown
    ELSE IF numBits = 0 THEN [tag |-> "bits", value |-> 0, bitOffset |-> bitOffset]
    ELSE ReadBitsLoop(buffer, bitOffset, numBits, 0, 0)

\* this.bitOffset after a readBits call that threw: unmoved by the width check,
\* else moved over the bits the loop consumed before it met the end
BitOffsetAfterThrow(buffer, bitOffset, numBits) ==
    IF numBits < 0 \/ numBits > 32 THEN bitOffset
    ELSE Max(bitOffset, 8 * Len(buffer))

skipBits(bitOffset, numBits) == bitOffset + numBits

\* an alignToByte that moves on to the next boundary even from a boundary
alignToByte_AlwaysMoves(bitOffset) == bitOffset + (8 - (bitOffset % 8))

alignToByte(bitOffset) ==
    LET remainder == bitOffset % 8
    IN IF remainder # 0 THEN bitOffset + (8 - remainder) ELSE bitOffset

(***************************************************************************)
(* Buffer writes and reads (Node.js Buffer, little-endian)                 *)
(***************************************************************************)
\* the byteLength low bytes of value, low byte first (two's complement)
LEBytes(value, byteLength) ==
    [i \in 1..byteLength |-> (value \div Pow2(8 * (i - 1))) % 256]

\* writeUInt8 / writeUInt16LE / writeUIntLE / writeUInt32LE: ERR_OUT_OF_RANGE throws
writeUIntLE(value, byteLength) ==
    IF value < 0 \/ (byteLength < 4 /\ value >= Pow2(8 * byteLength)) THEN Fail
    ELSE Ok(LEBytes(value, byteLength))

\* writeIntLE / writeInt32LE: ERR_OUT_OF_RANGE throws
writeIntLE(value, byteLength) ==
    IF byteLength < 4 /\ (value < -Pow2(8 * byteLength - 1) \/ value >= Pow2(8 * byteLength - 1))
    THEN Fail
    ELSE Ok(LEBytes(value, byteLength))

\* buffer.write(string, offset, length, "ascii") into a zeroed field of length bytes
writeAscii(string, length) ==
    Ok([i \in 1..length |-> IF i <= Len(string) THEN string[i] % 256 ELSE 0])

\* readUInt8 / readUInt16LE / readUIntLE / readUInt32LE at a byte offset inside the buffer
readUIntLE(buffer, offset, byteLength) ==
    LET b(i) == buffer[offset + i]
    IN IF byteLength = 1 THEN b(1)
       ELSE IF byteLength = 2 THEN b(1) + 256 * b(2)
       ELSE IF byteLength = 3 THEN b(1) + 256 * b(2) + 65536 * b(3)
       ELSE b(1) + 256 * b(2) + 65536 * b(3) + 16777216 * b(4)

\* readIntLE / readInt32LE at a byte offset inside the buffer (two's complement)
readIntLE(buffer, offset, byteLength) ==
    LET top == buffer[offset + byteLength]
        low == IF byteLength = 1 THEN 0 ELSE readUIntLE(buffer, offset, byteLength - 1)
    IN low + Pow2(8 * (byteLength - 1)) * (IF top >= 128 THEN top - 256 ELSE top)

\* buffer.toString("ascii", start, end): the bytes, each masked to 7 bits
toStringAscii(buffer, start, end) ==
    LET part == Slice(buffer, start, end)
    IN [i \in 1..Len(part) |-> part[i] % 128]

\* string.replace(/\0+$/, "")
RECURSIVE StripTrailingNul(_)
StripTrailingNul(s) ==
    IF s # <<>> /\ s[Len(s)] = 0 THEN StripTrailingNul(SubSeq(s, 1, Len(s) - 1)) ELSE s

(***************************************************************************)
(* PostcodeEncoder                                                         *)
(***************************************************************************)
\* Math.round(coordinate * 100000) of a coordinate given in micro-degrees:
\* Math.round rounds to the nearest integer, a half towards +Infinity
ScaleCoordinate(microDegrees) == (microDegrees + 5) \div 10

\* position of the outward key in the Map, 0 when absent (Map.get)
OutwardPos(od, outward) ==
    IF \E i \in 1..Len(od) : od[i].outward = outward
    THEN CHOOSE i \in 1..Len(od) : od[i].outward = outward
    ELSE 0

SectorPos(sectors, sectorNumber) ==
    IF \E i \in 1..Len(sectors) : sectors[i].sectorNumber = sectorNumber
    THEN CHOOSE i \in 1..Len(sectors) : sectors[i].sectorNumber = sectorNumber
    ELSE 0

\* a loop body in which a later record of a unit index overwrites the earlier one
AddUnit_LastWins(sectorData, parsed, latInt, lonInt) ==
    IF \E k \in 1..Len(sectorData.units) : sectorData.units[k].unitIndex = parsed.unitIndex
    THEN [sectorData EXCEPT
            !.units = [k \in 1..Len(@) |->
                         IF @[k].unitIndex = parsed.unitIndex
                         THEN [unitIndex |-> parsed.unitIndex, latInt |-> latInt, lonInt |-> lonInt]
                         ELSE @[k]]]
    ELSE [sectorData EXCEPT
            !.units = Append(@, [unitIndex |-> parsed.unitIndex,
                                 latInt |-> latInt, lonInt |-> lonInt]),
            !.latMin = IF @ <= latInt THEN @ ELSE latInt,
            !.latMax = IF @ >= latInt THEN @ ELSE latInt,
            !.lonMin = IF @ <= lonInt THEN @ ELSE lonInt,
            !.lonMax = IF @ >= lonInt THEN @ ELSE lonInt]

\* a loop body without the duplicate check: every parsed record is pushed
AddUnit_KeepsDuplicates(sectorData, parsed, latInt, lonInt) ==
    [sectorData EXCEPT
        !.units = Append(@, [unitIndex |-> parsed.unitIndex,
                             latInt |-> latInt, lonInt |-> lonInt]),
        !.latMin = IF @ <= latInt THEN @ ELSE latInt,
        !.latMax = IF @ >= latInt THEN @ ELSE latInt,
        !.lonMin = IF @ <= lonInt THEN @ ELSE lonInt,
        !.lonMax = IF @ >= lonInt THEN @ ELSE lonInt]

\* the tail of the loop body: skip a unit index the sector already holds, else
\* push the unit and widen the sector's bounds
AddUnit(sectorData, parsed, latInt, lonInt) ==
    IF \E k \in 1..Len(sectorData.units) : sectorData.units[k].unitIndex = parsed.unitIndex
    THEN sectorData
    ELSE [sectorData EXCEPT
            !.units = Append(@, [unitIndex |-> parsed.unitIndex,
                                 latInt |-> latInt, lonInt |-> lonInt]),
            !.latMin = Min(@, latInt), !.latMax = Max(@, latInt),
            !.lonMin = Min(@, lonInt), !.lonMax = Max(@, lonInt)]

\* sectors.get(parsed.sector), created on first sight with the record's bounds
GetOrCreateSector(sectors, parsed, latInt, lonInt) ==
    IF SectorPos(sectors, parsed.sector) = 0
    THEN Append(sectors, [sectorNumber |-> parsed.sector, units |-> <<>>,
                          latMin |-> latInt, lonMin |-> lonInt,
                          latMax |-> latInt, lonMax |-> lonInt])
    ELSE sectors

AddToSector(sectors, parsed, latInt, lonInt) ==
    [sectors EXCEPT ![SectorPos(sectors, parsed.sector)] = AddUnit(@, parsed, latInt, lonInt)]

\* outwardData.get(parsed.outward), created on first sight
GetOrCreateOutward(od, parsed) ==
    IF OutwardPos(od, parsed.outward) = 0
    THEN Append(od, [outward |-> parsed.outward, sectors |-> <<>>])
    ELSE od

AddToOutward(od, parsed, latInt, lonInt) ==
    [od EXCEPT ![OutwardPos(od, parsed.outward)].sectors =
                   AddToSector(GetOrCreateSector(@, parsed, latInt, lonInt),
                               parsed, latInt, lonInt)]

ProcessParsed(od, parsed, latInt, lonInt) ==
    IF parsed = Null THEN od
    ELSE AddToOutward(GetOrCreateOutward(od, parsed), parsed, latInt, lonInt)

\* Math.round(value * 100000) for a coordinate of an input record: the record
\* gives its coordinates in micro-degrees, or in whole degrees when it has a
\* field "unit"
RoundCoordinate(record, value) ==
    IF "unit" \in DOMAIN record THEN value * 100000 ELSE ScaleCoordinate(value)

\* the body of the for loop of processRecords, for one record
ProcessRecord(od, record) ==
    ProcessParsed(od, parsePostcode(record.postcode),
                  RoundCoordinate(record, record.lat), RoundCoordinate(record, record.lon))

\* the for loop of processRecords over records lo..hi, by halves; the comparison
\* has TLC compute the first half's result before the second half starts
RECURSIVE ProcessRange(_, _, _, _)
ProcessRange(od, recs, lo, hi) ==
    IF lo > hi THEN od
    ELSE IF lo = hi THEN ProcessRecord(od, recs[lo])
    ELSE LET first == ProcessRange(od, recs, lo, (lo + hi) \div 2)
         IN IF first = od THEN ProcessRange(od, recs, ((lo + hi) \div 2) + 1, hi)
            ELSE ProcessRange(first, recs, ((lo + hi) \div 2) + 1, hi)

processRecords(od, recs) == ProcessRange(od, recs, 1, Len(recs))

\* every unit of the Map, outward by outward and sector by sector
AllUnits(od) ==
    Concat([i \in 1..Len(od) |->
              Concat([j \in 1..Len(od[i].sectors) |-> od[i].sectors[j].units])])

\* Math.min over a non-empty list
MinOf(xs) == CHOOSE m \in {xs[i] : i \in 1..Len(xs)} : \A i \in 1..Len(xs) : m <= xs[i]

\* a - b for a >= b. JavaScript numbers hold the differences of 32-bit
\* integers exactly; here a difference d < 2^31 is held as d and a difference
\* 2^31 <= d < 2^32 as d - 2^32, the negative number ToInt32 makes of it
Difference(a, b) ==
    IF b < 0 /\ a > 2147483647 + b THEN ((a + MinInt32) - b) + MinInt32 ELSE a - b

\* Math.max(0, ...xs) of differences: one of 2^31 or more is above all others
MaxOf0(xs) ==
    IF \E i \in 1..Len(xs) : xs[i] < 0
    THEN CHOOSE m \in {xs[i] : i \in 1..Len(xs)} :
            m < 0 /\ \A i \in 1..Len(xs) : xs[i] < 0 => m >= xs[i]
    ELSE CHOOSE m \in {0} \cup {xs[i] : i \in 1..Len(xs)} :
            m >= 0 /\ \A i \in 1..Len(xs) : m >= xs[i]

\* offsets that are the coordinates of the first unit held
calculateGlobalOffsets_OfFirstUnit(od) ==
    IF AllUnits(od) = <<>> THEN [lat |-> 0, lon |-> 0]
    ELSE [lat |-> AllUnits(od)[1].latInt, lon |-> AllUnits(od)[1].lonInt]

\* calculateGlobalOffsets: [lat, lon], both 0 when no unit is held
calculateGlobalOffsets(od) ==
    LET units == AllUnits(od)
    IN IF units = <<>> THEN [lat |-> 0, lon |-> 0]
       ELSE [lat |-> MinOf([k \in 1..Len(units) |-> units[k].latInt]),
             lon |-> MinOf([k \in 1..Len(units) |-> units[k].lonInt])]

\* Array.prototype.sort((a, b) => a.unitIndex - b.unitIndex)
SortUnits(units) == SortSeq(units, LAMBDA a, b : a.unitIndex < b.unitIndex)

processSectors(od) ==
    [i \in 1..Len(od) |->
        [od[i] EXCEPT !.sectors =
            [j \in 1..Len(od[i].sectors) |->
                [od[i].sectors[j] EXCEPT !.units = SortUnits(@)]]]]

\* Math.ceil(Math.log2(maxValue + 1)): the least b with maxValue + 1 <= 2^b
RECURSIVE CeilLog2(_)
CeilLog2(n) == IF n <= 1 THEN 0 ELSE 1 + CeilLog2((n + 1) \div 2)

\* a difference of 2^31 or more, held as a negative number, takes 32 bits
calculateBitWidth(maxValue) ==
    IF maxValue = 0 THEN 0
    ELSE IF maxValue < 0 THEN 32
    ELSE IF maxValue = 2147483647 THEN 31
    ELSE CeilLog2(maxValue + 1)

BITMAP_BYTES == 85

\* the unit indices as the delta list stores them: the first, then the differences
DeltasOf(indices) ==
    [k \in 1..Len(indices) |-> IF k = 1 THEN indices[1] ELSE indices[k] - indices[k - 1]]

\* a choice that takes the list also when it is as long as the bitmap
chooseSectorMode_ListWhenEqual(sectorData) ==
    IF Len(sectorData.units) = 0 THEN [useList |-> FALSE, listByteSize |-> 0]
    ELSE LET deltas == DeltasOf([k \in 1..Len(sectorData.units) |->
                                    sectorData.units[k].unitIndex])
         IN IF \E k \in 1..Len(deltas) : deltas[k] < 0 THEN Thrown
            ELSE LET listByteSize == SumSeq([k \in 1..Len(deltas) |-> getByteLength(deltas[k])])
                 IN [useList |-> listByteSize <= BITMAP_BYTES, listByteSize |-> listByteSize]

\* [useList, listByteSize], or Thrown when getByteLength meets a negative delta
chooseSectorMode(sectorData) ==
    IF Len(sectorData.units) = 0 THEN [useList |-> FALSE, listByteSize |-> 0]
    ELSE LET deltas == DeltasOf([k \in 1..Len(sectorData.units) |->
                                    sectorData.units[k].unitIndex])
         IN IF \E k \in 1..Len(deltas) : deltas[k] < 0 THEN Thrown
            ELSE LET listByteSize == SumSeq([k \in 1..Len(deltas) |-> getByteLength(deltas[k])])
                 IN [useList |-> listByteSize < BITMAP_BYTES, listByteSize |-> listByteSize]

latDeltasOf(sectorData) ==
    [k \in 1..Len(sectorData.units) |->
        Difference(sectorData.units[k].latInt, sectorData.latMin)]
lonDeltasOf(sectorData) ==
    [k \in 1..Len(sectorData.units) |->
        Difference(sectorData.units[k].lonInt, sectorData.lonMin)]
bitsLatOf(sectorData) == calculateBitWidth(MaxOf0(latDeltasOf(sectorData)))
bitsLonOf(sectorData) == calculateBitWidth(MaxOf0(lonDeltasOf(sectorData)))

\* a bitmap that counts the bits of a byte from the high end
SetBitmapBits_HighBitFirst(units) ==
    [byteIndex1 \in 1..BITMAP_BYTES |->
        SumSeq([bitOffset1 \in 1..8 |->
                  IF \E k \in 1..Len(units) :
                        units[k].unitIndex = 8 * (byteIndex1 - 1) + (bitOffset1 - 1)
                  THEN Pow2(8 - bitOffset1) ELSE 0])]

\* the bitmap loop of writeUnitDataBlob, bitmap[byteIndex] |= 1 << bitOffset for
\* every unit with byteIndex < 85: a bit is set when some unit has its index
SetBitmapBits(units) ==
    [byteIndex1 \in 1..BITMAP_BYTES |->
        SumSeq([bitOffset1 \in 1..8 |->
                  IF \E k \in 1..Len(units) :
                        units[k].unitIndex = 8 * (byteIndex1 - 1) + (bitOffset1 - 1)
                  THEN Pow2(bitOffset1 - 1) ELSE 0])]

\* one pass of the coordinate stream loop: the latitude delta, then the longitude delta
WriteCoordinate(w, latDelta, lonDelta, bitsLat, bitsLon) ==
    LET w1 == writeBits(w, latDelta, bitsLat)
    IN IF w1 = Thrown THEN Thrown ELSE writeBits(w1, lonDelta, bitsLon)

\* the coordinate stream loop of writeUnitDataBlob over units lo..hi, by halves
RECURSIVE WriteCoordinates(_, _, _, _, _, _, _)
WriteCoordinates(w, latDeltas, lonDeltas, bitsLat, bitsLon, lo, hi) ==
    IF w = Thrown \/ lo > hi THEN w
    ELSE IF lo = hi THEN WriteCoordinate(w, latDeltas[lo], lonDeltas[lo], bitsLat, bitsLon)
    ELSE LET first == WriteCoordinates(w, latDeltas, lonDeltas, bitsLat, bitsLon,
                                       lo, (lo + hi) \div 2)
         IN IF first = Thrown THEN Thrown
            ELSE WriteCoordinates(first, latDeltas, lonDeltas, bitsLat, bitsLon,
                                  ((lo + hi) \div 2) + 1, hi)

writeUnitDataBlob(sectorData, useList, bitsLat, bitsLon, latDeltas, lonDeltas) ==
    LET presence ==
            IF useList
            THEN encodeDeltaSequence([k \in 1..Len(sectorData.units) |->
                                         sectorData.units[k].unitIndex])
            ELSE Ok(SetBitmapBits(sectorData.units))
        w == WriteCoordinates(NewBitWriter, latDeltas, lonDeltas, bitsLat, bitsLon,
                              1, Len(latDeltas))
    IN Cat(<<presence, IF w = Thrown THEN Fail ELSE Ok(getBuffer(w))>>)

writeSectorEntry(entry) ==
    Cat(<<writeUIntLE(entry.sectorNumber, 1),
          writeUIntLE(entry.unitCount, 2),
          writeUIntLE(entry.unitsRelOff, 3),
          writeIntLE(entry.baseLatStored, 3),
          writeIntLE(entry.baseLonStored, 3),
          writeUIntLE(entry.flags, 2)>>)

\* an outward block written with its sectors in the order the records brought them
SortSectors_Unsorted(sectors) == sectors

\* Array.prototype.sort((a, b) => a.sectorNumber - b.sectorNumber)
SortSectors(sectors) == SortSeq(sectors, LAMBDA a, b : a.sectorNumber < b.sectorNumber)

\* the "Process each sector" loop of writeOutwardBlock: the sector entries and
\* the unit data blobs, with the running relative offset
RECURSIVE BlockSectorsLoop(_, _, _, _, _, _, _)
BlockSectorsLoop(sortedSectors, i, currentRelativeOffset, sectorEntries, unitDataBuffers, gLat, gLon) ==
    IF i > Len(sortedSectors)
    THEN [tag |-> "block", sectorEntries |-> sectorEntries, unitDataBuffers |-> unitDataBuffers]
    ELSE LET sectorData == sortedSectors[i]
             mode == chooseSectorMode(sectorData)
             latDeltas == latDeltasOf(sectorData)
             lonDeltas == lonDeltasOf(sectorData)
             bitsLat == bitsLatOf(sectorData)
             bitsLon == bitsLonOf(sectorData)
             flags == BitOr(1, IF mode.useList THEN 2 ELSE 0)
             packed == BitOr(BitOr(flags, bitsLat * 4), bitsLon * 128)
             sectorEntry == [sectorNumber |-> sectorData.sectorNumber,
                             unitCount |-> Len(sectorData.units),
                             unitsRelOff |-> currentRelativeOffset,
                             baseLatStored |-> sectorData.latMin - gLat,
                             baseLonStored |-> sectorData.lonMin - gLon,
                             flags |-> packed,
                             bitsLat |-> bitsLat,
                             bitsLon |-> bitsLon]
             unitDataBuffer == writeUnitDataBlob(sectorData, mode.useList, bitsLat, bitsLon,
                                                 latDeltas, lonDeltas)
         IN IF ~unitDataBuffer.ok THEN Thrown
            ELSE BlockSectorsLoop(sortedSectors, i + 1,
                                  currentRelativeOffset + Len(unitDataBuffer.bytes),
                                  Append(sectorEntries, sectorEntry),
                                  Append(unitDataBuffers, unitDataBuffer), gLat, gLon)

writeOutwardBlock(outwardEntry, gLat, gLon) ==
    LET sortedSectors == SortSectors(outwardEntry.sectors)
        sectorTableSize == Len(sortedSectors) * 14
        loop == BlockSectorsLoop(sortedSectors, 1, sectorTableSize, <<>>, <<>>, gLat, gLon)
    IN IF loop = Thrown THEN Fail
       ELSE Cat(<<Cat([k \in 1..Len(loop.sectorEntries) |-> writeSectorEntry(loop.sectorEntries[k])]),
                  Cat(loop.unitDataBuffers)>>)

writeOutwardIndexEntry(entry) ==
    Cat(<<writeAscii(entry.outwardCode, 4),
          writeUIntLE(entry.sectorCount, 1),
          writeUIntLE(entry.sectorIndexOffset, 4)>>)

MAGIC == Str(<<"P", "C", "D", "B">>)

writeHeader(header) ==
    Cat(<<writeAscii(header.magic, 4),
          writeUIntLE(header.version, 1),
          writeUIntLE(header.flags, 1),
          writeUIntLE(header.outwardCount, 2),
          writeUIntLE(header.totalUnitCount, 4),
          writeIntLE(header.latOffset, 4),
          writeIntLE(header.lonOffset, 4),
          Ok(Repeat(0, 12))>>)

\* outward codes left in the order of the Map's keys
SortStrings_InsertionOrder(xs) == xs

\* Array.prototype.sort() of strings: ascending by code units
SortStrings(xs) == SortSeq(xs, StrLess)

\* outwardKey.padEnd(4, "\0").slice(0, 4)
PadOutwardCode(outwardKey) == Slice(outwardKey \o Repeat(0, 4 - Len(outwardKey)), 0, 4)

\* a plan that rounds the bytes of the coordinate stream down
PlannedUnitDataSize_RoundedDown(sectorData) ==
    (IF chooseSectorMode(sectorData).useList
     THEN chooseSectorMode(sectorData).listByteSize ELSE 85)
    + ((Len(sectorData.units) * (bitsLatOf(sectorData) + bitsLonOf(sectorData))) \div 8)

\* the size generateBinaryBuffer plans for the unit data of one sector
PlannedUnitDataSize(sectorData) ==
    LET mode == chooseSectorMode(sectorData)
        representationSize == IF mode.useList THEN mode.listByteSize ELSE BITMAP_BYTES
        coordinateBits == Len(sectorData.units) * (bitsLatOf(sectorData) + bitsLonOf(sectorData))
        coordinateBytes == (coordinateBits + 7) \div 8
    IN representationSize + coordinateBytes

\* the "Calculate offsets and build outward index" loop of generateBinaryBuffer
RECURSIVE OutwardIndexLoop(_, _, _, _, _)
OutwardIndexLoop(od, sortedOutwards, i, currentOffset, outwardIndex) ==
    IF i > Len(sortedOutwards) THEN outwardIndex
    ELSE LET entry == od[OutwardPos(od, sortedOutwards[i])]
             sectorCount == Len(entry.sectors)
             sectorTableSize == sectorCount * 14
             unitDataSize == SumSeq([j \in 1..sectorCount |-> PlannedUnitDataSize(entry.sectors[j])])
         IN OutwardIndexLoop(od, sortedOutwards, i + 1,
                             currentOffset + sectorTableSize + unitDataSize,
                             Append(outwardIndex,
                                    [outwardCode |-> PadOutwardCode(sortedOutwards[i]),
                                     sectorCount |-> sectorCount,
                                     sectorIndexOffset |-> currentOffset]))

generateBinaryBuffer(od, gLat, gLon) ==
    LET sortedOutwards == SortStrings([i \in 1..Len(od) |-> od[i].outward])
        header == [magic |-> MAGIC, version |-> 3, flags |-> 0,
                   outwardCount |-> Len(sortedOutwards),
                   totalUnitCount |-> Len(AllUnits(od)),
                   latOffset |-> gLat, lonOffset |-> gLon]
        outwardIndex == OutwardIndexLoop(od, sortedOutwards, 1, 32 + Len(sortedOutwards) * 9, <<>>)
    IN IF \E i \in 1..Len(od) : \E j \in 1..Len(od[i].sectors) :
             chooseSectorMode(od[i].sectors[j]) = Thrown
       THEN Fail  \* "Value must be non-negative", from the size planning
       ELSE
       Cat(<<writeHeader(header),
             Cat([i \in 1..Len(outwardIndex) |-> writeOutwardIndexEntry(outwardIndex[i])]),
             Cat([i \in 1..Len(sortedOutwards) |->
                    writeOutwardBlock(od[OutwardPos(od, sortedOutwards[i])], gLat, gLon)])>>)

\* an encodeFromRecords that keeps what the encoder held
ClearData_Kept(od) == od

\* this.outwardData.clear()
ClearData(od) == <<>>

\* what a call leaves in the encoder and what it returns (or that it throws)
EncodeOutcome(od, offsets, buffer) ==
    [outwardData |-> od, globalLatOffset |-> offsets.lat, globalLonOffset |-> offsets.lon,
     result |-> IF buffer.ok THEN [tag |-> "buffer", bytes |-> buffer.bytes] ELSE Thrown]

GenerateWithOffsets(od, offsets) ==
    EncodeOutcome(od, offsets, generateBinaryBuffer(od, offsets.lat, offsets.lon))

\* the steps after the records are processed: offsets, sorting, the buffer
FinishEncoding(od) == GenerateWithOffsets(processSectors(od), calculateGlobalOffsets(od))

\* encodeFromRecords, from the encoder state it starts in
encodeFromRecords(od, recs) == FinishEncoding(processRecords(ClearData(od), recs))

\* the file system has no file at the path
NoFile == [tag |-> "ENOENT"]

\* a file of these lines
FileOf(lines) == [tag |-> "file", lines |-> lines]

\* the for loop of readCsvFile over the lines of the file. A line is held as
\* what parseCsvLine and parseFloat make of it: the number of its fields, and
\* for three or more the postcode without quotes, whether parseFloat makes
\* numbers of the second and the third, and the numbers
KeptLine(line) ==
    /\ line.fields >= 3
    /\ line.postcode # <<>>
    /\ line.numeric

\* readCsvFile: the records of the lines it keeps, or the error of readFileSync
readCsvFile(file) ==
    IF file = NoFile THEN Thrown
    ELSE LET kept == SelectSeq(file.lines, KeptLine)
         IN [i \in 1..Len(kept) |->
               [postcode |-> kept[i].postcode, lat |-> kept[i].lat, lon |-> kept[i].lon]]

\* an encode that clears the encoder as encodeFromRecords does
encode_FromEmpty(od, rows) == FinishEncoding(processRecords(ClearData(od), rows))

\* encode(), after readCsvFile returned rows: steps 1 to 4 on what the
\* encoder holds
encode(od, rows) == FinishEncoding(processRecords(od, rows))

\* createTestEncoder(records): what the new encoder holds
createTestEncoder(recs) ==
    [outwardData |-> processSectors(processRecords(<<>>, recs)),
     offsets |-> calculateGlobalOffsets(processRecords(<<>>, recs))]

(***************************************************************************)
(* PostcodeClient                                                          *)
(***************************************************************************)
parseHeader(buffer) ==
    IF Len(buffer) < 32 THEN Thrown  \* "Buffer too small to contain v3 header"
    ELSE [tag |-> "header",
          magic |-> toStringAscii(buffer, 0, 4),
          version |-> readUIntLE(buffer, 4, 1),
          flags |-> readUIntLE(buffer, 5, 1),
          outwardCount |-> readUIntLE(buffer, 6, 2),
          totalUnitCount |-> readUIntLE(buffer, 8, 4),
          latOffset |-> readIntLE(buffer, 12, 4),
          lonOffset |-> readIntLE(buffer, 16, 4)]

\* a validation that lets an outward count of 0 pass
validateHeader_AcceptsNoOutward(header) ==
    IF header.magic # MAGIC THEN FALSE
    ELSE IF header.version # 3 THEN FALSE
    ELSE IF header.outwardCount < 0 \/ header.outwardCount > 65535 THEN FALSE
    ELSE TRUE

\* TRUE when validateHeader returns, FALSE when it throws
validateHeader(header) ==
    IF header.magic # MAGIC THEN FALSE
    ELSE IF header.version # 3 THEN FALSE
    ELSE IF header.outwardCount <= 0 \/ header.outwardCount > 65535 THEN FALSE
    ELSE TRUE

\* parseOutwardIndex: readUInt8 / readUInt32LE throw past the end of the buffer
parseOutwardIndex(buffer, header) ==
    IF 32 + 9 * header.outwardCount > Len(buffer) THEN Thrown
    ELSE [tag |-> "index",
          entries |-> [i \in 1..header.outwardCount |->
              LET offset == 32 + 9 * (i - 1)
              IN [outwardCode |-> StripTrailingNul(toStringAscii(buffer, offset, offset + 4)),
                  sectorCount |-> readUIntLE(buffer, offset + 4, 1),
                  sectorIndexOffset |-> readUIntLE(buffer, offset + 5, 4)]]]

\* new PostcodeClient(databaseBuffer)
NewPostcodeClient(databaseBuffer) ==
    LET header == parseHeader(databaseBuffer)
    IN IF header = Thrown THEN Thrown
       ELSE IF ~validateHeader(header) THEN Thrown
       ELSE LET index == parseOutwardIndex(databaseBuffer, header)
            IN IF index = Thrown THEN Thrown
               ELSE [tag |-> "client", buffer |-> databaseBuffer, header |-> header,
                     outwardIndex |-> index.entries]

\* String.prototype.localeCompare on digits and upper-case letters, where the
\* collation order is the code-unit order: negative, 0 or positive
localeCompare(a, b) == IF a = b THEN 0 ELSE IF StrLess(a, b) THEN -1 ELSE 1

RECURSIVE FindOutwardLoop(_, _, _, _)
FindOutwardLoop(outwardIndex, outward, left, right) ==
    IF ~(left <= right) THEN Null
    ELSE LET mid == (left + right) \div 2
             entry == outwardIndex[mid + 1]
             comparison == localeCompare(outward, entry.outwardCode)
         IN IF comparison = 0 THEN [tag |-> "entry", entry |-> entry]
            ELSE IF comparison < 0 THEN FindOutwardLoop(outwardIndex, outward, left, mid - 1)
            ELSE FindOutwardLoop(outwardIndex, outward, mid + 1, right)

findOutwardEntry(c, outward) == FindOutwardLoop(c.outwardIndex, outward, 0, Len(c.outwardIndex) - 1)

readSectorTable(c, outwardEntry) ==
    IF outwardEntry.sectorCount > 0
       /\ outwardEntry.sectorIndexOffset + 14 * outwardEntry.sectorCount > Len(c.buffer)
    THEN Thrown
    ELSE [tag |-> "sectors",
          sectors |-> [i \in 1..outwardEntry.sectorCount |->
              LET offset == outwardEntry.sectorIndexOffset + 14 * (i - 1)
                  packed == readUIntLE(c.buffer, offset + 12, 2)
              IN [sectorNumber |-> readUIntLE(c.buffer, offset, 1),
                  unitCount |-> readUIntLE(c.buffer, offset + 1, 2),
                  unitsRelOff |-> readUIntLE(c.buffer, offset + 3, 3),
                  baseLatStored |-> readIntLE(c.buffer, offset + 6, 3),
                  baseLonStored |-> readIntLE(c.buffer, offset + 9, 3),
                  flags |-> BitAnd(packed, 3),
                  bitsLat |-> BitAnd(packed \div 4, 31),
                  bitsLon |-> BitAnd(packed \div 128, 31)]]]

\* sectors.find(s => s.sectorNumber === sectorNumber) || null
findSectorEntry(sectors, sectorNumber) ==
    IF \E i \in 1..Len(sectors) : sectors[i].sectorNumber = sectorNumber
    THEN [tag |-> "sector",
          sector |-> sectors[CHOOSE i \in 1..Len(sectors) :
                                /\ sectors[i].sectorNumber = sectorNumber
                                /\ \A j \in 1..(i - 1) : sectors[j].sectorNumber # sectorNumber]]
    ELSE Null

\* a count that stops at the first bit
popcount8_AtMostOne(value) == IF value = 0 THEN 0 ELSE 1

RECURSIVE popcount8(_)
popcount8(value) == IF value = 0 THEN 0 ELSE 1 + popcount8(BitAnd(value, value - 1))

\* [exists, rank] of checkBitmapUnit
checkBitmapUnit(c, outwardEntry, sectorEntry, unitIndex) ==
    LET unitsOffset == outwardEntry.sectorIndexOffset + sectorEntry.unitsRelOff
        bitmap == Slice(c.buffer, unitsOffset, unitsOffset + 85)
        byteIndex == unitIndex \div 8
        bitIndex == unitIndex % 8
    IN IF byteIndex >= 85 THEN [exists |-> FALSE, rank |-> 0]
       ELSE IF byteIndex >= Len(bitmap) THEN [exists |-> FALSE, rank |-> 0]
       ELSE LET byte == bitmap[byteIndex + 1]
            IN IF BitAnd(byte, Pow2(bitIndex)) = 0 THEN [exists |-> FALSE, rank |-> 0]
               ELSE [exists |-> TRUE,
                     rank |-> SumSeq([i \in 1..byteIndex |-> popcount8(bitmap[i])])
                              + popcount8(BitAnd(byte, Pow2(bitIndex) - 1))]

RECURSIVE FindListLoop(_, _, _, _)
FindListLoop(values, unitIndex, left, right) ==
    IF ~(left <= right) THEN -1
    ELSE LET mid == (left + right) \div 2
             value == values[mid + 1]
         IN IF value = unitIndex THEN mid
            ELSE IF value < unitIndex THEN FindListLoop(values, unitIndex, mid + 1, right)
            ELSE FindListLoop(values, unitIndex, left, mid - 1)

\* [exists, rank, streamStart] of findListUnit, or Thrown
findListUnit(c, outwardEntry, sectorEntry, unitIndex) ==
    LET unitsOffset == outwardEntry.sectorIndexOffset + sectorEntry.unitsRelOff
        decoded == decodeDeltaSequence(c.buffer, unitsOffset, sectorEntry.unitCount)
    IN IF decoded = Thrown THEN Thrown
       ELSE LET mid == FindListLoop(decoded.values, unitIndex, 0, Len(decoded.values) - 1)
            IN IF mid = -1 THEN [exists |-> FALSE, rank |-> 0, streamStart |-> 0]
               ELSE [exists |-> TRUE, rank |-> mid, streamStart |-> unitsOffset + decoded.bytesRead]

\* [latDelta, lonDelta] of readCoordinateRecord, or Thrown
readCoordinateRecord(c, streamStart, rank, bitsLat, bitsLon) ==
    LET bitOffset == rank * (bitsLat + bitsLon)
        lat == readBits(c.buffer, streamStart * 8 + bitOffset, bitsLat)
    IN IF lat = Thrown THEN Thrown
       ELSE LET lon == readBits(c.buffer, lat.bitOffset, bitsLon)
            IN IF lon = Thrown THEN Thrown
               ELSE [latDelta |-> lat.value, lonDelta |-> lon.value]

\* the tail of lookup and of enumerateSector: read the record, rebuild the coordinates
ReadResult(c, sectorEntry, streamStart, rank, postcode, outward) ==
    LET rec == readCoordinateRecord(c, streamStart, rank, sectorEntry.bitsLat, sectorEntry.bitsLon)
    IN IF rec = Thrown THEN Thrown
       ELSE [tag |-> "result", postcode |-> postcode, outward |-> outward,
             lat |-> (sectorEntry.baseLatStored + rec.latDelta) + c.header.latOffset,
             lon |-> (sectorEntry.baseLonStored + rec.lonDelta) + c.header.lonOffset]

\* the unit found: read its record from the coordinate stream
LookupUnit(c, postcode, parsed, outwardEntry, sectorEntry, isListMode, unit) ==
    IF unit = Thrown THEN Thrown
    ELSE IF ~unit.exists THEN Null
    ELSE ReadResult(c, sectorEntry,
                    IF isListMode THEN unit.streamStart
                    ELSE outwardEntry.sectorIndexOffset + sectorEntry.unitsRelOff + 85,
                    unit.rank, postcode, parsed.outward)

\* the sector found: look the unit up in its bitmap or its list
LookupInSector(c, postcode, parsed, outwardEntry, sectorEntry, isListMode) ==
    LookupUnit(c, postcode, parsed, outwardEntry, sectorEntry, isListMode,
               IF isListMode
               THEN findListUnit(c, outwardEntry, sectorEntry, parsed.unitIndex)
               ELSE checkBitmapUnit(c, outwardEntry, sectorEntry, parsed.unitIndex))

LookupInTable(c, postcode, parsed, outwardEntry, sec) ==
    IF sec = Null THEN Null
    ELSE LookupInSector(c, postcode, parsed, outwardEntry, sec.sector,
                        BitAnd(sec.sector.flags, 2) # 0)

\* the outward found: read its sector table and find the sector
LookupInOutward(c, postcode, parsed, outwardEntry, table) ==
    IF table = Thrown THEN Thrown
    ELSE LookupInTable(c, postcode, parsed, outwardEntry,
                       findSectorEntry(table.sectors, parsed.sector))

LookupOutward(c, postcode, parsed, found) ==
    IF found = Null THEN Null
    ELSE LookupInOutward(c, postcode, parsed, found.entry, readSectorTable(c, found.entry))

LookupParsed(c, postcode, parsed) ==
    IF parsed = Null THEN Null
    ELSE LookupOutward(c, postcode, parsed, findOutwardEntry(c, parsed.outward))

lookup(c, postcode) == LookupParsed(c, postcode, parsePostcode(postcode))

\* String(n) for a non-negative integer
RECURSIVE NumberToString(_)
NumberToString(n) ==
    IF n < 10 THEN <<48 + n>> ELSE NumberToString(n \div 10) \o <<48 + (n % 10)>>

\* `${outwardCode} ${sectorNumber}${unit}`
EnumeratedPostcode(outwardEntry, sectorEntry, unitIndex) ==
    outwardEntry.outwardCode \o <<32>> \o NumberToString(sectorEntry.sectorNumber)
        \o indexToUnit(unitIndex)

\* results.push(...) of enumerateSector for the unit of a rank; the rank moves on
EnumerateUnit(c, outwardEntry, sectorEntry, streamStart, unitIndex, st) ==
    LET item == ReadResult(c, sectorEntry, streamStart, st.rank,
                           EnumeratedPostcode(outwardEntry, sectorEntry, unitIndex),
                           outwardEntry.outwardCode)
    IN IF item = Thrown THEN Thrown
       ELSE [rank |-> st.rank + 1, results |-> Append(st.results, item)]

\* one pass of the bitmap scan: a unit index whose bit is clear is passed over
EnumerateBitmapStep(c, outwardEntry, sectorEntry, bitmap, unitIndex, st) ==
    IF unitIndex \div 8 >= Len(bitmap)
       \/ BitAnd(bitmap[(unitIndex \div 8) + 1], Pow2(unitIndex % 8)) = 0
    THEN st
    ELSE EnumerateUnit(c, outwardEntry, sectorEntry,
                       outwardEntry.sectorIndexOffset + sectorEntry.unitsRelOff + 85,
                       unitIndex, st)

\* the bitmap scan of enumerateSector over unit indices lo..hi, by halves
RECURSIVE EnumerateBitmapLoop(_, _, _, _, _, _, _)
EnumerateBitmapLoop(c, outwardEntry, sectorEntry, bitmap, st, lo, hi) ==
    IF st = Thrown \/ lo > hi THEN st
    ELSE IF lo = hi THEN EnumerateBitmapStep(c, outwardEntry, sectorEntry, bitmap, lo, st)
    ELSE LET first == EnumerateBitmapLoop(c, outwardEntry, sectorEntry, bitmap, st,
                                          lo, (lo + hi) \div 2)
         IN IF first = Thrown THEN Thrown
            ELSE EnumerateBitmapLoop(c, outwardEntry, sectorEntry, bitmap, first,
                                     ((lo + hi) \div 2) + 1, hi)

\* the list scan of enumerateSector over ranks lo..hi, by halves
RECURSIVE EnumerateListLoop(_, _, _, _, _, _, _, _)
EnumerateListLoop(c, outwardEntry, sectorEntry, values, streamStart, st, lo, hi) ==
    IF st = Thrown \/ lo > hi THEN st
    ELSE IF lo = hi
    THEN EnumerateUnit(c, outwardEntry, sectorEntry, streamStart, values[lo + 1], st)
    ELSE LET first == EnumerateListLoop(c, outwardEntry, sectorEntry, values, streamStart, st,
                                        lo, (lo + hi) \div 2)
         IN IF first = Thrown THEN Thrown
            ELSE EnumerateListLoop(c, outwardEntry, sectorEntry, values, streamStart, first,
                                   ((lo + hi) \div 2) + 1, hi)

EnumeratedItems(st) == IF st = Thrown THEN Thrown ELSE [tag |-> "list", items |-> st.results]

\* the results of one sector, in the order enumerateSector pushes them, or Thrown
enumerateSector(c, outwardEntry, sectorEntry) ==
    LET isListMode == BitAnd(sectorEntry.flags, 2) # 0
        unitsOffset == outwardEntry.sectorIndexOffset + sectorEntry.unitsRelOff
        start == [rank |-> 0, results |-> <<>>]
    IN IF isListMode
       THEN LET decoded == decodeDeltaSequence(c.buffer, unitsOffset, sectorEntry.unitCount)
            IN IF decoded = Thrown THEN Thrown
               ELSE EnumeratedItems(
                        EnumerateListLoop(c, outwardEntry, sectorEntry, decoded.values,
                                          unitsOffset + decoded.bytesRead, start,
                                          0, Len(decoded.values) - 1))
       ELSE EnumeratedItems(
                EnumerateBitmapLoop(c, outwardEntry, sectorEntry,
                                    Slice(c.buffer, unitsOffset, unitsOffset + 85), start,
                                    0, 675))

RECURSIVE EnumerateSectorsLoop(_, _, _, _, _)
EnumerateSectorsLoop(c, outwardEntry, sectors, i, results) ==
    IF i > Len(sectors) THEN [tag |-> "list", items |-> results]
    ELSE LET sectorResults == enumerateSector(c, outwardEntry, sectors[i])
         IN IF sectorResults = Thrown THEN Thrown
            ELSE EnumerateSectorsLoop(c, outwardEntry, sectors, i + 1,
                                      results \o sectorResults.items)

enumerateOutward(c, outward) ==
    LET found == findOutwardEntry(c, [i \in 1..Len(outward) |-> toUpperCase(outward[i])])
    IN IF found = Null THEN [tag |-> "list", items |-> <<>>]
       ELSE LET table == readSectorTable(c, found.entry)
            IN IF table = Thrown THEN Thrown
               ELSE EnumerateSectorsLoop(c, found.entry, table.sectors, 1, <<>>)

getOutwardList(c) ==
    SortStrings([i \in 1..Len(c.outwardIndex) |-> c.outwardIndex[i].outwardCode])

\* a getOutwardList that takes the entries out of the index
OutwardIndex_Drained(c) == <<>>

\* this.outwardIndex after getOutwardList: map() builds a new array of the codes
\* and sort() orders that array, so the index keeps its entries and their order
OutwardIndexAfterList(c) == c.outwardIndex

\* a prefix test that accepts the prefix anywhere in the string
startsWith_Anywhere(s, prefix) ==
    \E k \in 0..(Len(s) - Len(prefix)) : Slice(s, k, k + Len(prefix)) = prefix

\* String.prototype.startsWith
startsWith(s, prefix) == Len(prefix) <= Len(s) /\ Slice(s, 0, Len(prefix)) = prefix

\* the callback of filter, for the upper-cased prefix
MatchesPrefix(outward, upperPrefix) == startsWith(outward, upperPrefix)

findNearbyOutwards(c, prefix) ==
    LET upperPrefix == [i \in 1..Len(prefix) |-> toUpperCase(prefix[i])]
    IN SelectSeq(getOutwardList(c), LAMBDA outward : MatchesPrefix(outward, upperPrefix))

\* TRUE, FALSE, or Thrown when lookup throws
isValidPostcode(c, postcode) ==
    LET found == lookup(c, postcode)
    IN IF found = Thrown THEN Thrown ELSE [tag |-> "boolean", value |-> found # Null]

PostcodeClient_getStats(c) ==
    [totalOutwards |-> c.header.outwardCount,
     totalPostcodes |-> c.header.totalUnitCount,
     fileSize |-> Len(c.buffer)]

\* getStats of the encoder, on the Map it holds
PostcodeEncoder_getStats(od) ==
    [totalOutwards |-> Len(od),
     totalPostcodes |-> SumSeq([i \in 1..Len(od) |->
                           SumSeq([j \in 1..Len(od[i].sectors) |-> Len(od[i].sectors[j].units)])])]

(***************************************************************************)
(* Inputs of the model                                                     *)
(***************************************************************************)
Rec(chars, lat, lon) == [postcode |-> Str(chars), lat |-> lat, lon |-> lon]

\* the records the free input lists are drawn from: two forms of one key with
\* different coordinates, a lower-case form, coordinates that round up and
\* down, an outward of five characters, an unparseable postcode
RecordPool ==
    << Rec(<<"M","1"," ","1","A","A">>, 53480800, -2242600),
       Rec(<<"m","1"," ","1","a","b">>, 53480949, -2242655),
       Rec(<<"M","1","1","A","A">>, 53499900, -2299900),
       Rec(<<"S","W","1","A"," ","1","A","A">>, 51501400, -141900),
       Rec(<<"S","W","1","A","B"," ","1","A","A">>, 51501500, -142000),
       Rec(<<"I","N","V","A","L","I","D">>, 53480800, -2242600) >>

\* the longest free input list
MaxRecords == 2

RECURSIVE ListsUpTo(_)
ListsUpTo(n) ==
    IF n = 0 THEN {<<>>}
    ELSE LET shorter == ListsUpTo(n - 1)
         IN shorter \cup {Append(xs, RecordPool[k]) : xs \in {ys \in shorter : Len(ys) = n - 1},
                                                       k \in 1..Len(RecordPool)}

\* the records of the reader's test suite and of scenario S1
TestRecords ==
    << Rec(<<"M","1"," ","1","A","A">>, 53480800, -2242600),
       Rec(<<"M","1"," ","1","A","B">>, 53480900, -2242700),
       Rec(<<"M","1"," ","2","A","A">>, 53481000, -2243000),
       Rec(<<"S","W","1","A"," ","1","A","A">>, 51501400, -141900),
       Rec(<<"S","W","1","A"," ","1","A","B">>, 51501500, -142000) >>

\* "should handle extreme coordinates": one sector spanning the globe
ExtremeRecords ==
    << Rec(<<"E","X","1"," ","1","A","A">>, 90000000, 180000000),
       Rec(<<"E","X","1"," ","1","A","B">>, -90000000, -180000000),
       Rec(<<"E","X","1"," ","1","A","C">>, 0, 0) >>

\* the same extremes in two sectors: the second sector's base is 18000000
FarApartRecords ==
    << Rec(<<"E","X","1"," ","1","A","A">>, 90000000, 180000000),
       Rec(<<"E","X","1"," ","2","A","B">>, -90000000, -180000000) >>

\* three outwards, two of which agree on their first four characters, given
\* out of order, with a unit index that takes two varint bytes
LongOutwardRecords ==
    << Rec(<<"W","1","A"," ","9","Z","Z">>, 51515400, -155300),
       Rec(<<"S","W","1","A","B"," ","1","A","A">>, 51501500, -142000),
       Rec(<<"S","W","1","A"," ","1","A","A">>, 51501400, -141900) >>

\* two outwards of five characters that agree on their first four
TwinOutwardRecords ==
    << Rec(<<"S","W","1","A","C"," ","1","A","B">>, 51501600, -142100),
       Rec(<<"S","W","1","A","B"," ","1","A","A">>, 51501500, -142000) >>

\* a sector "M1 3.." of n units, unit indices 0, 7, 14, ... and last 675 ("ZZ",
\* in the last byte of a bitmap), given in a scrambled order, between a record
\* of another outward and one of another sector of M1
DenseUnit(j, n) == IF (11 * j) % n = n - 1 THEN 675 ELSE 7 * ((11 * j) % n)
DenseRecords(n) ==
    << Rec(<<"S","W","1","A"," ","1","A","A">>, 51501400, -141900) >>
    \o [j \in 1..n |->
          [postcode |-> Str(<<"M","1"," ","3">>) \o indexToUnit(DenseUnit(j, n)),
           lat |-> 53480000 + 10 * ((3 * DenseUnit(j, n)) % 50) + 4,
           lon |-> -2243000 - 10 * (DenseUnit(j, n) % 17) - 5]]
    \o << Rec(<<"M","1"," ","1","A","A">>, 53480800, -2242600) >>

\* a record whose coordinates are given in whole degrees
Whole(chars, lat, lon) == [postcode |-> Str(chars), lat |-> lat, lon |-> lon, unit |-> "degree"]

\* numbers that are no coordinates of the globe, which encodeFromRecords takes
\* as it takes any number: one sector whose latitudes are 2^31 quanta or more
\* apart, one whose longitudes are, one whose latitudes are less than 2^31
\* but 2^30 or more apart
WideLatitudeRecords ==
    << Whole(<<"M","1"," ","1","A","A">>, -15000, 0),
       Whole(<<"M","1"," ","1","A","B">>, 15000, 1) >>
WideLongitudeRecords ==
    << Whole(<<"M","1"," ","1","A","A">>, 53, 15000),
       Whole(<<"M","1"," ","1","A","B">>, 53, -15000) >>
Wide31Records ==
    << Whole(<<"M","1"," ","1","A","A">>, -7500, 0),
       Whole(<<"M","1"," ","1","A","B">>, 7500, 0) >>

\* what encodeFromRecords is called with where the widths of the fields are at stake
WideLists ==
    {WideLatitudeRecords, WideLongitudeRecords, Wide31Records, FarApartRecords, TestRecords}

ScenarioLists ==
    {TestRecords, ExtremeRecords, FarApartRecords, LongOutwardRecords, TwinOutwardRecords,
     DenseRecords(BITMAP_BYTES - 1), DenseRecords(BITMAP_BYTES)}

\* the path of new PostcodeEncoder(csvFilePath), and that of createTestEncoder
CsvPath == "postcodes.csv"
EmptyPath == ""

\* lines of a CSV file: a row of three fields, the header line (its
\* coordinates are no numbers), a line of two fields, an empty line, and a
\* row whose postcode is empty
Row(chars, lat, lon) == [fields |-> 3, postcode |-> Str(chars), numeric |-> TRUE, lat |-> lat, lon |-> lon]
HeaderLine == [fields |-> 3, postcode |-> Str(<<"p","o","s","t","c","o","d","e">>), numeric |-> FALSE]
ShortLine == [fields |-> 2]
EmptyLine == [fields |-> 0]
UnnamedRow == [fields |-> 3, postcode |-> <<>>, numeric |-> TRUE, lat |-> 53480800, lon |-> -2242600]

\* the files encode() reads: one with a header, two units of M1 1 (one of
\* them as RecordPool has it, with other coordinates) and lines that are
\* dropped; one with an outward that sorts first and the lowest coordinates;
\* one with nothing but a header
ManchesterFile ==
  FileOf(
    << HeaderLine,
       Row(<<"M","1"," ","1","A","C">>, 53481000, -2242800),
       EmptyLine,
       Row(<<"M","1"," ","1","A","A">>, 53480700, -2242500),
       ShortLine,
       UnnamedRow >>)
EastFile ==
  FileOf(
    << Row(<<"E","1"," ","6","A","N">>, 51520000, -54300),
       Row(<<"W","1","A"," ","0","A","X">>, 50000000, -3000000) >>)
HeaderOnlyFile == FileOf(<< HeaderLine >>)
CsvFiles == {ManchesterFile, EastFile, HeaderOnlyFile}

\* what readFileSync finds at a path
FilesAt(path) == IF path = EmptyPath THEN {NoFile} ELSE CsvFiles \cup {NoFile}

\* the sample data of createTestEncoder
DefaultRecords ==
    << Rec(<<"M","1"," ","1","A","A">>, 53480800, -2242600),
       Rec(<<"M","1"," ","1","A","B">>, 53480900, -2242700),
       Rec(<<"M","1"," ","1","A","C">>, 53481000, -2242800),
       Rec(<<"S","W","1","A"," ","1","A","A">>, 51501400, -141900),
       Rec(<<"S","W","1","A"," ","1","A","B">>, 51501500, -142000),
       Rec(<<"E","1"," ","6","A","N">>, 51520000, -54300),
       Rec(<<"W","1","A"," ","0","A","X">>, 51515400, -155300) >>

\* what createTestEncoder is called with: nothing, or records
TestEncoderLists == {DefaultRecords, TestRecords, <<>>}

\* what encodeFromRecords is called with on a new encoder
InputLists == ListsUpTo(MaxRecords) \cup ScenarioLists

\* what it is called with again on an encoder that has encoded before
ReencodeLists == ListsUpTo(1)

\* the code units of the strings parsePostcode is called with: "A", "Z", "b",
\* "0", "9", the space, and "@", "[", ":", which come right before "A", right
\* after "Z" and right after "9"
ParseAlphabet == {65, 90, 98, 48, 57, 32, 64, 91, 58}

\* the longest of these strings
MaxLen == 5

ParseInputs == {<<>>} \cup UNION {[1..n -> ParseAlphabet] : n \in 1..MaxLen}

\* the numbers VarintUtils is called with: around the lengths of 1 to 5
\* bytes, 2^31 - 1, 2^31, 2^32 - 1, 2^32 and above
VarintNumbers ==
    {Number(0, n) : n \in {0, 1, 127, 128, 300, 16383, 16384, 2097151, 2097152,
                           268435455, 268435456, 2147483647}}
    \cup {Number(1, 0), Number(1, 5), Number(1, 2147483647), Number(2, 0), Number(2, 300)}

\* the longest list of the delta sequences
MaxValues == 2

NumberLE(a, b) == a.high < b.high \/ (a.high = b.high /\ a.low31 <= b.low31)

RECURSIVE NumberListsUpTo(_)
NumberListsUpTo(n) ==
    IF n = 0 THEN {<<>>}
    ELSE NumberListsUpTo(n - 1)
         \cup {Append(xs, v) : xs \in {ys \in NumberListsUpTo(n - 1) : Len(ys) = n - 1},
                               v \in {w \in VarintNumbers : w.high <= 1}}

\* the non-decreasing lists of numbers below 2^32 the delta sequences are
\* called with. Left out are the lists in which a number of 2^31 or more
\* follows a smaller one less than 2^31 below it: decodeDeltaSequence adds
\* them up to 2^31 or more, past the integers of TLC
VarintLists ==
    {xs \in NumberListsUpTo(MaxValues) :
        \A i \in 2..Len(xs) :
           /\ NumberLE(xs[i - 1], xs[i])
           /\ xs[i].high = 1 => xs[i - 1].high = 1 \/ NumberMinus(xs[i], xs[i - 1]).high = 1}

\* the strings lookup is called with
LookupStrings ==
    { Str(<<"M","1"," ","1","A","A">>),
      Str(<<"m","1"," ","1","a","a">>),
      Str(<<" ","M","1","\t"," ","1","A","A"," ">>),
      Str(<<"M","1","1","A","A">>),
      Str(<<"m","1"," ","1","a","b">>),
      Str(<<"M","1"," ","2","A","A">>),
      Str(<<"S","W","1","A"," ","1","A","A">>),
      Str(<<"s","w","1","a","1","a","a">>),
      Str(<<"S","W","1","A","B"," ","1","A","A">>),
      Str(<<"S","W","1","A"," ","1","A","B">>),
      Str(<<"W","1","A"," ","9","Z","Z">>),
      Str(<<"E","X","1"," ","1","A","B">>),
      Str(<<"M","1"," ","3","A","A">>),
      Str(<<"M","1"," ","3","A","B">>),
      Str(<<"M","1"," ","3","W","Q">>),
      Str(<<"X","X","1"," ","1","X","X">>),
      Str(<<"M","1"," ","9","Z","Z">>),
      Str(<<"M","1"," ","1","Z","Z">>),
      Str(<<"I","N","V","A","L","I","D">>),
      Str(<<"M","1"," ","1">>),
      Str(<<"M","1"," ","1","A","A","A">>),
      Str(<<"M","1"," ","1","-","A">>),
      <<>> }

\* the strings enumerateOutward is called with
OutwardStrings ==
    { Str(<<"M","1">>), Str(<<"s","w","1","a">>), Str(<<"S","W","1","A","B">>),
      Str(<<"E","X","1">>), Str(<<"X","X","1">>) }

\* the strings findNearbyOutwards is called with
PrefixStrings ==
    { Str(<<"M">>), Str(<<"m">>), Str(<<"S","W">>), Str(<<"s","w","1","a">>),
      Str(<<"S","W","1","A","B">>), Str(<<"1">>), Str(<<"Z","Z">>), <<>> }

\* the buffers a reader is constructed on: the encoder's buffer as returned, cut
\* short (inside the header, inside the outward index, where the outward index
\* ends, one byte before the end), or with one header field overwritten
WithByte(bytes, offset, byte) ==
    IF offset < Len(bytes) THEN [bytes EXCEPT ![offset + 1] = byte] ELSE bytes

CandidateBuffers(bytes) ==
    { bytes,
      <<>>,
      Slice(bytes, 0, 31),
      Slice(bytes, 0, 36),
      Slice(bytes, 0, 32 + 9 * readUIntLE(bytes, 6, 2)),
      Slice(bytes, 0, Len(bytes) - 1),
      WithByte(bytes, 3, 88),
      WithByte(bytes, 0, 208),
      WithByte(bytes, 4, 2),
      WithByte(WithByte(bytes, 6, 0), 7, 0) }

\* a number below 2^31, and one from 2^31 on, as [bit31, low31]
Small(n) == [bit31 |-> 0, low31 |-> n]
Large(n) == [bit31 |-> 1, low31 |-> n]

\* the (value, bitCount) pairs writeBits is called with, 0 <= value < 2^bitCount:
\* those of the integration tests, the widths 0, 1, 31 and 32, and two values
\* of 32 bits from 2^31 on, 0x80000001 and 0xffffffff
WriteItems ==
    { [value |-> Small(15), bits |-> 4],
      [value |-> Small(0), bits |-> 0],
      [value |-> Small(5), bits |-> 3],
      [value |-> Small(1), bits |-> 1],
      [value |-> Small(1023), bits |-> 10],
      [value |-> Small(2147483647), bits |-> 31],
      [value |-> Small(305419896), bits |-> 32],
      [value |-> Large(1), bits |-> 32],
      [value |-> Large(2147483647), bits |-> 32] }

\* the longest sequence of writeBits calls
MaxWrites == 2

\* the widths readBits is called with wherever the reader stands
ReadWidths == {-1, 0, 3, 33}

\* how far beyond the end of the buffer skipBits and setBitOffset take the reader
MaxBeyond == 8

(***************************************************************************)
(* The state machine                                                       *)
(***************************************************************************)

Init ==
    /\ records = <<>>
    /\ outwardData = <<>>
    /\ globalLatOffset = 0
    /\ globalLonOffset = 0
    /\ reused = FALSE
    /\ encoded = [tag |-> "none"]
    /\ client = [tag |-> "none"]
    /\ query = [op |-> "none"]
    /\ bitWriter = NewBitWriter
    /\ written = <<>>
    /\ bitReader = [tag |-> "none"]
    /\ bitCall = [op |-> "none"]
    /\ varintCall = [op |-> "none"]
    /\ parseCall = [op |-> "none"]
    /\ csvFilePath = CsvPath
    /\ encodeCall = [op |-> "none"]

\* encoder.encodeFromRecords(xs), before the buffer is handed to a reader
EncodeFromRecords ==
    /\ client.tag = "none"
    /\ \E xs \in (IF encoded.tag = "none" THEN InputLists ELSE ReencodeLists) :
       \E run \in {encodeFromRecords(outwardData, xs)} :
             /\ records' = xs
             /\ outwardData' = run.outwardData
             /\ globalLatOffset' = run.globalLatOffset
             /\ globalLonOffset' = run.globalLonOffset
             /\ reused' = (outwardData # <<>> /\ outwardData # run.outwardData)
             /\ encoded' = run.result
    /\ query' = [op |-> "none"]
    /\ encodeCall' = [op |-> "encodeFromRecords"]
    /\ UNCHANGED <<client, bitVars, varintCall, parseCall, csvFilePath>>

\* new PostcodeClient(buffer)
NewClient ==
    /\ encoded.tag = "buffer"
    /\ client.tag = "none"
    /\ \E buffer \in CandidateBuffers(encoded.bytes) :
       \E c \in {NewPostcodeClient(buffer)} :
          client' = IF c = Thrown THEN [tag |-> "throw", buffer |-> buffer] ELSE c
    /\ UNCHANGED <<records, outwardData, globalLatOffset, globalLonOffset, reused, encoded, query, bitVars, varintCall, parseCall, csvFilePath, encodeCall>>

\* client.lookup(postcode)
Lookup ==
    /\ client.tag = "client"
    /\ \E postcode \in LookupStrings :
          query' = [op |-> "lookup", arg |-> postcode, result |-> lookup(client, postcode)]
    /\ UNCHANGED <<records, outwardData, globalLatOffset, globalLonOffset, reused, encoded, client, bitVars, varintCall, parseCall, csvFilePath, encodeCall>>

\* client.enumerateOutward(outward)
EnumerateOutward ==
    /\ client.tag = "client"
    /\ \E outward \in OutwardStrings :
          query' = [op |-> "enumerateOutward", arg |-> outward,
                    result |-> enumerateOutward(client, outward)]
    /\ UNCHANGED <<records, outwardData, globalLatOffset, globalLonOffset, reused, encoded, client, bitVars, varintCall, parseCall, csvFilePath, encodeCall>>

\* client.getOutwardList()
GetOutwardList ==
    /\ client.tag = "client"
    /\ query' = [op |-> "getOutwardList", arg |-> <<>>,
                 result |-> [tag |-> "list", items |-> getOutwardList(client)]]
    /\ client' = [client EXCEPT !.outwardIndex = OutwardIndexAfterList(client)]
    /\ UNCHANGED <<records, outwardData, globalLatOffset, globalLonOffset, reused, encoded, bitVars, varintCall, parseCall, csvFilePath, encodeCall>>

\* client.findNearbyOutwards(prefix)
FindNearbyOutwards ==
    /\ client.tag = "client"
    /\ \E prefix \in PrefixStrings :
          query' = [op |-> "findNearbyOutwards", arg |-> prefix,
                    result |-> [tag |-> "list", items |-> findNearbyOutwards(client, prefix)]]
    /\ client' = [client EXCEPT !.outwardIndex = OutwardIndexAfterList(client)]
    /\ UNCHANGED <<records, outwardData, globalLatOffset, globalLonOffset, reused, encoded, bitVars, varintCall, parseCall, csvFilePath, encodeCall>>

\* client.isValidPostcode(postcode)
IsValidPostcode ==
    /\ client.tag = "client"
    /\ \E postcode \in LookupStrings :
          query' = [op |-> "isValidPostcode", arg |-> postcode,
                    result |-> isValidPostcode(client, postcode)]
    /\ UNCHANGED <<records, outwardData, globalLatOffset, globalLonOffset, reused, encoded, client, bitVars, varintCall, parseCall, csvFilePath, encodeCall>>

\* client.getStats()
ClientGetStats ==
    /\ client.tag = "client"
    /\ query' = [op |-> "getStats", arg |-> <<>>, result |-> PostcodeClient_getStats(client)]
    /\ UNCHANGED <<records, outwardData, globalLatOffset, globalLonOffset, reused, encoded, client, bitVars, varintCall, parseCall, csvFilePath, encodeCall>>

\* encoder.getStats(), after an encodeFromRecords call and before a reader is built
EncoderGetStats ==
    /\ encoded.tag # "none"
    /\ client.tag = "none"
    /\ query' = [op |-> "encoderGetStats", arg |-> <<>>,
                 result |-> PostcodeEncoder_getStats(outwardData)]
    /\ UNCHANGED <<records, outwardData, globalLatOffset, globalLonOffset, reused, encoded, client, bitVars, varintCall, parseCall, csvFilePath, encodeCall>>

Next ==
    \/ EncodeFromRecords
    \/ EncoderGetStats
    \/ NewClient
    \/ Lookup
    \/ IsValidPostcode
    \/ EnumerateOutward
    \/ GetOutwardList
    \/ FindNearbyOutwards
    \/ ClientGetStats

Spec == Init /\ [][Next]_vars

(***************************************************************************)
(* The state machine of the widths: the encoder is given numbers of any    *)
(* size, and a reader stands on what it returns                            *)
(***************************************************************************)
\* encoder.encodeFromRecords(xs) on a new encoder, with numbers of any size
EncodeWide ==
    /\ encoded.tag = "none"
    /\ \E xs \in WideLists :
       \E run \in {encodeFromRecords(outwardData, xs)} :
             /\ records' = xs
             /\ outwardData' = run.outwardData
             /\ globalLatOffset' = run.globalLatOffset
             /\ globalLonOffset' = run.globalLonOffset
             /\ reused' = FALSE
             /\ encoded' = run.result
    /\ encodeCall' = [op |-> "encodeFromRecords"]
    /\ UNCHANGED <<client, query, bitVars, varintCall, parseCall, csvFilePath>>

WideNext ==
    \/ EncodeWide
    \/ NewClient
    \/ Lookup
    \/ EnumerateOutward

WideSpec == Init /\ [][WideNext]_vars

(***************************************************************************)
(* The state machine of the CSV path: an encoder made with a path or by    *)
(* createTestEncoder, on which encode(), encodeFromRecords and getStats    *)
(* are called in any order, while the file at the path may change          *)
(***************************************************************************)
\* the records an encoder holds, as records: outward by outward and sector by
\* sector in the order of the Maps, with the coordinates it holds
HeldRecords(od) ==
    Concat([i \in 1..Len(od) |->
              Concat([j \in 1..Len(od[i].sectors) |->
                        [k \in 1..Len(od[i].sectors[j].units) |->
                           [postcode |-> od[i].outward
                                         \o <<48 + od[i].sectors[j].sectorNumber>>
                                         \o indexToUnit(od[i].sectors[j].units[k].unitIndex),
                            lat |-> od[i].sectors[j].units[k].latInt * 10,
                            lon |-> od[i].sectors[j].units[k].lonInt * 10]]])])

\* what encode() leaves when readCsvFile returned rows
EncodeRows(file, rows) ==
    \E run \in {encode(outwardData, rows)} :
       /\ records' = rows
       /\ outwardData' = run.outwardData
       /\ globalLatOffset' = run.globalLatOffset
       /\ globalLonOffset' = run.globalLonOffset
       /\ reused' = (outwardData # <<>> /\ outwardData # run.outwardData)
       /\ encoded' = run.result

\* encoder.encode(): the error of readCsvFile is thrown on, before the
\* encoder has changed
Encode ==
    /\ client.tag = "none"
    /\ \E file \in FilesAt(csvFilePath) :
          /\ IF file = NoFile
             THEN /\ encoded' = Thrown
                  /\ UNCHANGED <<records, outwardData, globalLatOffset, globalLonOffset, reused>>
             ELSE EncodeRows(file, readCsvFile(file))
          /\ encodeCall' = [op |-> "encode", file |-> file,
                            held |-> HeldRecords(outwardData),
                            previous |-> encoded,
                            repeated |-> (encodeCall.op = "encode" /\ encodeCall.file = file)]
    /\ query' = [op |-> "none"]
    /\ UNCHANGED <<client, bitVars, varintCall, parseCall, csvFilePath>>

\* PostcodeEncoder.createTestEncoder(records), instead of new PostcodeEncoder(path)
CreateTestEncoder ==
    /\ encodeCall.op = "none"
    /\ \E xs \in TestEncoderLists :
       \E made \in {createTestEncoder(xs)} :
          /\ records' = xs
          /\ outwardData' = made.outwardData
          /\ globalLatOffset' = made.offsets.lat
          /\ globalLonOffset' = made.offsets.lon
    /\ csvFilePath' = EmptyPath
    /\ encodeCall' = [op |-> "createTestEncoder"]
    /\ UNCHANGED <<reused, encoded, client, query, bitVars, varintCall, parseCall>>

CsvNext ==
    \/ CreateTestEncoder
    \/ Encode
    \/ EncodeFromRecords
    \/ EncoderGetStats

CsvSpec == Init /\ [][CsvNext]_vars

(***************************************************************************)
(* The state machine of the Normalizer: calls of parsePostcode             *)
(***************************************************************************)
\* PostcodeNormalizer.parsePostcode(postcode), a static method without
\* state: one call in a behaviour
ParsePostcode ==
    /\ parseCall.op = "none"
    /\ \E postcode \in ParseInputs :
          parseCall' = [op |-> "parsePostcode", arg |-> postcode,
                        result |-> parsePostcode(postcode)]
    /\ UNCHANGED <<codecVars, bitVars, varintCall>>

ParseNext == ParsePostcode

ParseSpec == Init /\ [][ParseNext]_vars

(***************************************************************************)
(* The state machine of the varints: calls of VarintUtils, a decode on     *)
(* what an encode returned                                                 *)
(***************************************************************************)
\* VarintUtils.encode(value)
VarintEncode ==
    /\ \E v \in VarintNumbers :
          varintCall' = [op |-> "encode", value |-> v, result |-> EncodeNumber(v)]
    /\ UNCHANGED <<codecVars, bitVars, parseCall>>

\* VarintUtils.decode(encoded, 0)
VarintDecode ==
    /\ varintCall.op = "encode"
    /\ varintCall.result.ok
    /\ varintCall' = [op |-> "decode", value |-> varintCall.value,
                      buffer |-> varintCall.result.bytes,
                      result |-> VarintUtils_decode(varintCall.result.bytes, 0)]
    /\ UNCHANGED <<codecVars, bitVars, parseCall>>

\* VarintUtils.getByteLength(value)
VarintGetByteLength ==
    /\ \E v \in VarintNumbers :
          varintCall' = [op |-> "getByteLength", value |-> v, result |-> NumberByteLength(v)]
    /\ UNCHANGED <<codecVars, bitVars, parseCall>>

\* VarintUtils.encodeDeltaSequence(values)
VarintEncodeDeltaSequence ==
    /\ \E xs \in VarintLists :
          varintCall' = [op |-> "encodeDeltaSequence", values |-> xs,
                         result |-> EncodeNumberSequence(xs)]
    /\ UNCHANGED <<codecVars, bitVars, parseCall>>

\* VarintUtils.decodeDeltaSequence(encoded, 0, values.length)
VarintDecodeDeltaSequence ==
    /\ varintCall.op = "encodeDeltaSequence"
    /\ varintCall.result.ok
    /\ varintCall' = [op |-> "decodeDeltaSequence", values |-> varintCall.values,
                      buffer |-> varintCall.result.bytes,
                      result |-> decodeDeltaSequence(varintCall.result.bytes, 0,
                                                     Len(varintCall.values))]
    /\ UNCHANGED <<codecVars, bitVars, parseCall>>

\* chooseSectorMode of a sector whose unit indices are the values
VarintChooseSectorMode ==
    /\ \E xs \in {ys \in VarintLists : \A i \in 1..Len(ys) : ys[i].high = 0 /\ ys[i].low31 < 676} :
          varintCall' = [op |-> "chooseSectorMode",
                         values |-> [i \in 1..Len(xs) |-> xs[i].low31],
                         result |-> chooseSectorMode(
                             [units |-> [i \in 1..Len(xs) |-> [unitIndex |-> xs[i].low31]]])]
    /\ UNCHANGED <<codecVars, bitVars, parseCall>>

VarintNext ==
    \/ VarintEncode
    \/ VarintDecode
    \/ VarintGetByteLength
    \/ VarintEncodeDeltaSequence
    \/ VarintDecodeDeltaSequence
    \/ VarintChooseSectorMode

VarintSpec == Init /\ [][VarintNext]_vars

(***************************************************************************)
(* The state machine of the bit streams: writeBits calls on a BitWriter,   *)
(* then a BitReader on its getBuffer()                                     *)
(***************************************************************************)
\* writer.writeBits(value, bitCount)
BitWrite ==
    /\ bitReader.tag = "none"
    /\ Len(written) < MaxWrites
    /\ \E item \in WriteItems :
          /\ bitWriter' = writeBits(bitWriter, ToInt32(item.value), item.bits)
          /\ written' = Append(written, [value |-> item.value, bits |-> item.bits,
                                         at |-> getBitOffset(bitWriter)])
    /\ UNCHANGED <<bitReader, bitCall, codecVars, varintCall, parseCall>>

\* new BitReader(writer.getBuffer()): getBuffer pads the writer
BitNewReader ==
    /\ bitReader.tag = "none"
    /\ written # <<>>
    /\ bitReader' = [tag |-> "reader", buffer |-> getBuffer(bitWriter), bitOffset |-> 0]
    /\ bitWriter' = padToByte(bitWriter)
    /\ UNCHANGED <<written, bitCall, codecVars, varintCall, parseCall>>

\* reader.readBits(numBits): any of ReadWidths, or the width of a written value
\* where that value was written
BitReadBits ==
    /\ bitReader.tag = "reader"
    /\ \E numBits \in ReadWidths \cup {written[i].bits : i \in {j \in 1..Len(written) :
                                                            written[j].at = bitReader.bitOffset}} :
       \E got \in {readBits(bitReader.buffer, bitReader.bitOffset, numBits)} :
          /\ bitCall' = [op |-> "readBits", arg |-> numBits, from |-> bitReader.bitOffset,
                         result |-> IF got = Thrown THEN Thrown
                                    ELSE [tag |-> "number", value |-> got.value]]
          /\ bitReader' = [bitReader EXCEPT !.bitOffset =
                              IF got = Thrown
                              THEN BitOffsetAfterThrow(bitReader.buffer, bitReader.bitOffset, numBits)
                              ELSE got.bitOffset]
    /\ UNCHANGED <<bitWriter, written, codecVars, varintCall, parseCall>>

\* reader.skipBits(numBits)
BitSkipBits ==
    /\ bitReader.tag = "reader"
    /\ \E numBits \in {0, 1, 8} :
          /\ skipBits(bitReader.bitOffset, numBits) <= 8 * Len(bitReader.buffer) + MaxBeyond
          /\ bitCall' = [op |-> "skipBits", arg |-> numBits, from |-> bitReader.bitOffset,
                         result |-> Null]
          /\ bitReader' = [bitReader EXCEPT !.bitOffset = skipBits(@, numBits)]
    /\ UNCHANGED <<bitWriter, written, codecVars, varintCall, parseCall>>

\* reader.setBitOffset(offset): to where a value was written, or beyond the end
BitSetBitOffset ==
    /\ bitReader.tag = "reader"
    /\ \E offset \in {written[i].at : i \in 1..Len(written)}
                      \cup {8 * Len(bitReader.buffer) + MaxBeyond} :
          /\ bitCall' = [op |-> "setBitOffset", arg |-> offset, from |-> bitReader.bitOffset,
                         result |-> Null]
          /\ bitReader' = [bitReader EXCEPT !.bitOffset = offset]
    /\ UNCHANGED <<bitWriter, written, codecVars, varintCall, parseCall>>

\* reader.alignToByte()
BitAlignToByte ==
    /\ bitReader.tag = "reader"
    /\ bitCall' = [op |-> "alignToByte", arg |-> 0, from |-> bitReader.bitOffset,
                   result |-> Null]
    /\ bitReader' = [bitReader EXCEPT !.bitOffset = alignToByte(@)]
    /\ UNCHANGED <<bitWriter, written, codecVars, varintCall, parseCall>>

BitNext ==
    \/ BitWrite
    \/ BitNewReader
    \/ BitReadBits
    \/ BitSkipBits
    \/ BitSetBitOffset
    \/ BitAlignToByte

BitSpec == Init /\ [][BitNext]_vars

(***************************************************************************)
(* Vocabulary of the properties                                            *)
(***************************************************************************)
\* a reader stands on the buffer the last encodeFromRecords call returned
DatabaseLoaded ==
    /\ encoded.tag = "buffer"
    /\ client.tag = "client"
    /\ client.buffer = encoded.bytes

\* the parsed keys of the input records the Normalizer parses
InputKeys ==
    {parsePostcode(records[i].postcode) : i \in 1..Len(records)} \ {Null}

\* the input records whose parsed key is key
RecordsOf(key) == {i \in 1..Len(records) : parsePostcode(records[i].postcode) = key}

\* no two input records parse to the same key
DistinctKeys == \A key \in InputKeys : Cardinality(RecordsOf(key)) = 1

\* a string without its whitespace and with its letters in upper case, computed
\* on the character codes
Canonical(s) ==
    LET kept == SelectSeq(s, LAMBDA ch : ch \notin {9, 10, 11, 12, 13, 32})
    IN [i \in 1..Len(kept) |-> IF kept[i] \in 97..122 THEN kept[i] - 32 ELSE kept[i]]

\* outward, space, sector digit, two unit letters
Written(key) ==
    key.outward \o <<32, 48 + key.sector, 65 + (key.unitIndex \div 26), 65 + (key.unitIndex % 26)>>

\* the later records of a key removed, the rest in their order
WithoutLaterDuplicates(xs) ==
    LET numbered == [i \in 1..Len(xs) |-> [index |-> i, record |-> xs[i]]]
        first(n) == \/ parsePostcode(n.record.postcode) = Null
                    \/ \A j \in 1..(n.index - 1) :
                          parsePostcode(xs[j].postcode) # parsePostcode(n.record.postcode)
        kept == SelectSeq(numbered, first)
    IN [i \in 1..Len(kept) |-> kept[i].record]

\* a sector of the encoder's data that is stored as a bitmap
HasBitmapSector ==
    \E i \in 1..Len(outwardData) : \E j \in 1..Len(outwardData[i].sectors) :
        /\ outwardData[i].sectors[j].units # <<>>
        /\ ~chooseSectorMode(outwardData[i].sectors[j]).useList

(***************************************************************************)
(* C1 .. C10                                                               *)
(***************************************************************************)

\* C1, as the claim states it: when the reader stands on the buffer built from
\* the records, lookup of the postcode of any input record the Normalizer
\* parses returns a result, never null.
C1_StoredPostcodeIsFound ==
    (/\ DatabaseLoaded
     /\ query.op = "lookup"
     /\ \E i \in 1..Len(records) :
           /\ records[i].postcode = query.arg
           /\ parsePostcode(records[i].postcode) # Null)
    => query.result.tag = "result"

\* C2, as the claim states it: when the input records have pairwise distinct
\* parsed keys, the integers lookup reconstructs for a stored postcode are
\* round(lat * 10^5) and round(lon * 10^5) of that postcode's input record.
C2_ReconstructedIntegersAreRounded ==
    (/\ DatabaseLoaded
     /\ DistinctKeys
     /\ query.op = "lookup"
     /\ query.result.tag = "result")
    => \A i \in RecordsOf(parsePostcode(query.arg)) :
          /\ query.result.lat = ScaleCoordinate(records[i].lat)
          /\ query.result.lon = ScaleCoordinate(records[i].lon)

C4_AbsentPostcodeIsNull ==
    (/\ DatabaseLoaded
     /\ query.op = "lookup"
     /\ parsePostcode(query.arg) \notin InputKeys)
    => query.result = Null

\* C5, as the claim states it: for a postcode that is found, lookup of any
\* string that differs from the argument only in letter case and whitespace
\* returns a result equal in every field.
C5_VariantsEqualInEveryField ==
    (/\ DatabaseLoaded
     /\ query.op = "lookup"
     /\ query.result.tag = "result")
    => \A p \in LookupStrings :
          Canonical(p) = Canonical(query.arg) => lookup(client, p) = query.result

\* C5, amended: for a postcode that is found, lookup of any string that differs
\* from the argument only in letter case and whitespace returns a result with
\* the same outward, latitude and longitude; the postcode field of a result is
\* the argument as it was given.
C5_VariantsEqualInCoordinates ==
    (/\ DatabaseLoaded
     /\ query.op = "lookup"
     /\ query.result.tag = "result")
    => /\ query.result.postcode = query.arg
       /\ \A p \in LookupStrings :
             Canonical(p) = Canonical(query.arg)
             => /\ lookup(client, p).tag = "result"
                /\ lookup(client, p).postcode = p
                /\ lookup(client, p).outward = query.result.outward
                /\ lookup(client, p).lat = query.result.lat
                /\ lookup(client, p).lon = query.result.lon

\* C5 happens: a lower-case argument with extra whitespace was found, and
\* another spelling of it is among the strings compared
C5_Witness ==
    /\ DatabaseLoaded
    /\ query.op = "lookup"
    /\ query.result.tag = "result"
    /\ query.arg # Canonical(query.arg)
    /\ \E p \in LookupStrings : p # query.arg /\ Canonical(p) = Canonical(query.arg)

\* C6, as the claim states it: enumerateOutward(o) returns exactly the input
\* postcodes whose outward is o, each once and written as outward, space,
\* sector digit, unit letters, each with the coordinates lookup returns for
\* it; for an outward of no input postcode the list is empty.
C6_EnumerationIsExact ==
    (DatabaseLoaded /\ query.op = "enumerateOutward")
    => /\ query.result.tag = "list"
       /\ {query.result.items[k].postcode : k \in 1..Len(query.result.items)}
            = {Written(key) : key \in {x \in InputKeys : x.outward = Canonical(query.arg)}}
       /\ \A k \in 1..Len(query.result.items) : \A m \in 1..Len(query.result.items) :
             query.result.items[k].postcode = query.result.items[m].postcode => k = m
       /\ \A k \in 1..Len(query.result.items) :
             /\ lookup(client, query.result.items[k].postcode).tag = "result"
             /\ lookup(client, query.result.items[k].postcode).lat = query.result.items[k].lat
             /\ lookup(client, query.result.items[k].postcode).lon = query.result.items[k].lon

\* C7: the results of enumerateOutward are in ascending order of sector number
\* and, within a sector, of unit index.
C7_EnumerationIsOrdered ==
    (DatabaseLoaded /\ query.op = "enumerateOutward" /\ query.result.tag = "list")
    => \A k \in 1..Len(query.result.items) : \A m \in 1..Len(query.result.items) :
          k < m =>
            LET a == parsePostcode(query.result.items[k].postcode)
                b == parsePostcode(query.result.items[m].postcode)
            IN /\ a # Null
               /\ b # Null
               /\ \/ a.sector < b.sector
                  \/ (a.sector = b.sector /\ a.unitIndex < b.unitIndex)

\* C7 happens: an outward was enumerated that holds a bitmap sector and a list
\* sector, built from records that came in no order of sector or unit
C7_Witness ==
    /\ DatabaseLoaded
    /\ query.op = "enumerateOutward"
    /\ query.result.tag = "list"
    /\ HasBitmapSector
    /\ Len(query.result.items) > BITMAP_BYTES
    /\ \E i \in 1..Len(records) : \E j \in 1..Len(records) :
          /\ i < j
          /\ parsePostcode(records[i].postcode) # Null
          /\ parsePostcode(records[j].postcode) # Null
          /\ parsePostcode(records[i].postcode).outward = Canonical(query.arg)
          /\ parsePostcode(records[j].postcode).outward = Canonical(query.arg)
          /\ parsePostcode(records[j].postcode).sector < parsePostcode(records[i].postcode).sector

\* C8, as the claim states it: getOutwardList returns the distinct outward
\* codes of the parseable input records, in ascending order, each once.
C8_OutwardListIsExact ==
    (DatabaseLoaded /\ query.op = "getOutwardList")
    => /\ {query.result.items[k] : k \in 1..Len(query.result.items)}
            = {key.outward : key \in InputKeys}
       /\ \A k \in 1..Len(query.result.items) : \A m \in 1..Len(query.result.items) :
             k < m => StrLess(query.result.items[k], query.result.items[m])

\* C9, as the claim states it: constructing a reader on a buffer throws when
\* the buffer is shorter than 32 bytes, when its first four bytes are not
\* "PCDB", when its version byte is not 3, or when its outward count is 0.
C9_BadHeaderIsRejected ==
    (/\ client.tag # "none"
     /\ \/ Len(client.buffer) < 32
        \/ SubSeq(client.buffer, 1, 4) # <<80, 67, 68, 66>>
        \/ client.buffer[5] # 3
        \/ client.buffer[7] + 256 * client.buffer[8] \notin 1..65535)
    => client.tag = "throw"

\* C10: encodeFromRecords(xs) returns what a new encoder returns for xs,
\* whatever the encoder held from the calls before.
C10_EncodingDependsOnRecordsOnly ==
    (encoded.tag # "none" /\ client.tag = "none")
    => encoded = encodeFromRecords(<<>>, records).result

\* C10 happens: an encoder that held the units of other records has encoded
\* and returned a buffer
C10_Witness ==
    /\ reused
    /\ client.tag = "none"
    /\ encoded.tag = "buffer"
    /\ InputKeys # {}

(***************************************************************************)
(* C11 .. C14                                                              *)
(***************************************************************************)

\* C11: getStats of a reader on the encoder's buffer reports the number of
\* distinct outwards and the number of distinct keys of the parseable records
\* and the length of the buffer; getStats of the encoder reports the same two
\* counts.
C11_StatsCountDistinctKeys ==
    /\ (DatabaseLoaded /\ query.op = "getStats")
       => /\ query.result.totalOutwards = Cardinality({key.outward : key \in InputKeys})
          /\ query.result.totalPostcodes = Cardinality(InputKeys)
          /\ query.result.fileSize = Len(encoded.bytes)
    /\ query.op = "encoderGetStats"
       => /\ query.result.totalOutwards = Cardinality({key.outward : key \in InputKeys})
          /\ query.result.totalPostcodes = Cardinality(InputKeys)

\* C11 happens: a reader reported the counts of records of which one was
\* unparseable or a later duplicate, so fewer postcodes than records
C11_Witness ==
    /\ DatabaseLoaded
    /\ query.op = "getStats"
    /\ query.result.totalPostcodes > 0
    /\ query.result.totalPostcodes < Len(records)

\* the positions of the outward list whose outward starts with the prefix in
\* upper case
MatchingPositions(list, prefix) ==
    {i \in 1..Len(list) :
        /\ Len(list[i]) >= Len(prefix)
        /\ \A k \in 1..Len(prefix) :
              list[i][k] = (IF prefix[k] \in 97..122 THEN prefix[k] - 32 ELSE prefix[k])}

\* C12: findNearbyOutwards(prefix) returns the elements of getOutwardList that
\* start with the upper-cased prefix, as often and in the order that list has
\* them, and a prefix that differs only in letter case returns the same.
C12_NearbyOutwardsAreThePrefixMatches ==
    (client.tag = "client" /\ query.op = "findNearbyOutwards")
    => LET list == getOutwardList(client)
           positions == MatchingPositions(list, query.arg)
       IN /\ Len(query.result.items) = Cardinality(positions)
          /\ \A i \in positions :
                query.result.items[Cardinality({j \in positions : j <= i})] = list[i]
          /\ \A other \in PrefixStrings :
                (/\ Len(other) = Len(query.arg)
                 /\ \A k \in 1..Len(other) :
                       \/ other[k] = query.arg[k]
                       \/ other[k] \in 97..122 /\ other[k] - 32 = query.arg[k]
                       \/ query.arg[k] \in 97..122 /\ query.arg[k] - 32 = other[k])
                => findNearbyOutwards(client, other) = query.result.items

\* C12 happens: a lower-case prefix matched some outwards of the list and not
\* others
C12_Witness ==
    /\ DatabaseLoaded
    /\ query.op = "findNearbyOutwards"
    /\ \E k \in 1..Len(query.arg) : query.arg[k] \in 97..122
    /\ query.result.items # <<>>
    /\ Len(query.result.items) < Len(getOutwardList(client))

\* C13, as the claim states it: on a buffer on which the construction of a
\* reader succeeded, no lookup and no enumerateOutward call throws.
C13_QueriesNeverThrow ==
    (client.tag = "client" /\ query.op \in {"lookup", "enumerateOutward"})
    => query.result # Thrown

\* C14: the buffer, the header and the outward index of a reader stay what the
\* construction made them, whatever queries ran, and the result of the last
\* query is what a newly constructed reader on that buffer returns for it.
C14_QueriesLeaveTheReaderUnchanged ==
    client.tag = "client"
    => /\ client.buffer \in CandidateBuffers(encoded.bytes)
       /\ client = NewPostcodeClient(client.buffer)
       /\ query.op = "lookup"
          => query.result = lookup(NewPostcodeClient(client.buffer), query.arg)
       /\ query.op = "isValidPostcode"
          => query.result = isValidPostcode(NewPostcodeClient(client.buffer), query.arg)
       /\ query.op = "enumerateOutward"
          => query.result = enumerateOutward(NewPostcodeClient(client.buffer), query.arg)
       /\ query.op = "getOutwardList"
          => query.result.items = getOutwardList(NewPostcodeClient(client.buffer))
       /\ query.op = "findNearbyOutwards"
          => query.result.items = findNearbyOutwards(NewPostcodeClient(client.buffer), query.arg)
       /\ query.op = "getStats"
          => query.result = PostcodeClient_getStats(NewPostcodeClient(client.buffer))

\* C14 happens: a reader of several outwards answered getOutwardList, the query
\* that sorts, and holds its index as before
C14_Witness ==
    /\ DatabaseLoaded
    /\ query.op = "getOutwardList"
    /\ Len(query.result.items) >= 2
    /\ Len(client.outwardIndex) = Len(query.result.items)

(***************************************************************************)
(* C15, C16 (under BitSpec)                                                *)
(***************************************************************************)

\* the bits written in all
TotalBits == SumSeq([i \in 1..Len(written) |-> written[i].bits])

\* C15, as the claim states it: after writeBits calls with 0 <= value < 2^n and
\* 0 <= n <= 32, getBuffer returns ceil(total bits / 8) bytes whose padding
\* bits are zero, and readBits of n bits at the bit offset where a value was
\* written returns that value and leaves the reader where the next value was
\* written, so that reading the same widths in the same order returns each
\* value again.
C15_WrittenBitsAreReadBack ==
    bitReader.tag = "reader"
    => /\ Len(bitReader.buffer) = (TotalBits + 7) \div 8
       /\ TotalBits % 8 # 0
          => bitReader.buffer[Len(bitReader.buffer)] < Pow2(TotalBits % 8)
       /\ \A i \in 1..Len(written) :
             LET got == readBits(bitReader.buffer, written[i].at, written[i].bits)
             IN /\ got # Thrown
                /\ written[i].value.bit31 = 0
                /\ got.value = written[i].value.low31
                /\ got.bitOffset = (IF i < Len(written) THEN written[i + 1].at ELSE TotalBits)
       /\ (/\ bitCall.op = "readBits"
            /\ \E i \in 1..Len(written) :
                  written[i].at = bitCall.from /\ written[i].bits = bitCall.arg)
          => /\ bitCall.result # Thrown
             /\ \A i \in 1..Len(written) :
                   (written[i].at = bitCall.from /\ written[i].bits = bitCall.arg)
                   => /\ written[i].value.bit31 = 0
                      /\ bitCall.result.value = written[i].value.low31

\* C16: the bit offset after a BitReader call is the one the call implies:
\* readBits(n) that returns moved it by n, and readBits(0) returns 0;
\* skipBits(n) moved it by n; setBitOffset(k) set it to k; alignToByte moved
\* it to the least multiple of 8 not below it; and readBits throws exactly
\* when n < 0, n > 32 or some of the n bits lie beyond the end of the buffer.
C16_BitOffsetFollowsTheCalls ==
    bitReader.tag = "reader"
    => /\ bitCall.op = "none" => bitReader.bitOffset = 0
       /\ (bitCall.op = "readBits" /\ bitCall.result # Thrown)
          => /\ bitReader.bitOffset = bitCall.from + bitCall.arg
             /\ bitCall.arg = 0 => bitCall.result.value = 0
       /\ bitCall.op = "readBits"
          => (bitCall.result = Thrown
              <=> \/ bitCall.arg < 0
                  \/ bitCall.arg > 32
                  \/ (bitCall.arg > 0
                      /\ bitCall.from + bitCall.arg > 8 * Len(bitReader.buffer)))
       /\ bitCall.op = "skipBits" => bitReader.bitOffset = bitCall.from + bitCall.arg
       /\ bitCall.op = "setBitOffset" => bitReader.bitOffset = bitCall.arg
       /\ bitCall.op = "alignToByte"
          => /\ bitReader.bitOffset % 8 = 0
             /\ bitReader.bitOffset >= bitCall.from
             /\ bitReader.bitOffset - bitCall.from < 8

\* C16 happens: alignToByte was called on a reader that stood on a byte
\* boundary inside the buffer, away from its start
C16_Witness ==
    /\ bitReader.tag = "reader"
    /\ bitCall.op = "alignToByte"
    /\ bitCall.from % 8 = 0
    /\ bitCall.from > 0
    /\ bitCall.from < 8 * Len(bitReader.buffer)

(***************************************************************************)
(* Vocabulary of the properties of the file                                *)
(***************************************************************************)
\* the encoder has returned a buffer and no reader stands on it yet
BufferReturned == encoded.tag = "buffer" /\ client.tag = "none"

\* the returned buffer with its header and its outward index read from it
File ==
    [tag |-> "client", buffer |-> encoded.bytes, header |-> parseHeader(encoded.bytes),
     outwardIndex |-> parseOutwardIndex(encoded.bytes, parseHeader(encoded.bytes)).entries]

\* the sector table of the i-th outward index entry, read from the buffer
SectorsOf(c, i) == readSectorTable(c, c.outwardIndex[i]).sectors

\* the i-th outward the encoder holds, in ascending order of outward code; its
\* j-th sector, in ascending order of sector number; the k-th unit of a
\* sector, in ascending order of unit index
OutwardAt(i) ==
    CHOOSE o \in {outwardData[n] : n \in 1..Len(outwardData)} :
        Cardinality({n \in 1..Len(outwardData) : StrLess(outwardData[n].outward, o.outward)}) = i - 1
SectorAt(o, j) ==
    CHOOSE x \in {o.sectors[n] : n \in 1..Len(o.sectors)} :
        Cardinality({n \in 1..Len(o.sectors) : o.sectors[n].sectorNumber < x.sectorNumber}) = j - 1
UnitAt(x, k) ==
    CHOOSE u \in {x.units[n] : n \in 1..Len(x.units)} :
        Cardinality({n \in 1..Len(x.units) : x.units[n].unitIndex < u.unitIndex}) = k - 1

\* the unit indices of a sector in ascending order
AscendingIndices(x) == [k \in 1..Len(x.units) |-> UnitAt(x, k).unitIndex]

\* where the blob of the j-th sector of the i-th outward begins and where it
\* ends: at the next blob of the block, at the next block, or at the end
BlobStart(c, i, j) == c.outwardIndex[i].sectorIndexOffset + SectorsOf(c, i)[j].unitsRelOff
BlobEnd(c, i, j) ==
    IF j < Len(SectorsOf(c, i)) THEN BlobStart(c, i, j + 1)
    ELSE IF i < Len(c.outwardIndex) THEN c.outwardIndex[i + 1].sectorIndexOffset
    ELSE Len(c.buffer)

\* ceil(unit_count * (bits_lat + bits_lon) / 8) of a sector entry
CoordinateBytes(entry) == (entry.unitCount * (entry.bitsLat + entry.bitsLon) + 7) \div 8

\* the length of the presence payload of a sector entry: the varint list as
\* it decodes, or the bitmap
PresenceBytes(c, i, j) ==
    IF BitAnd(SectorsOf(c, i)[j].flags, 2) # 0
    THEN decodeDeltaSequence(c.buffer, BlobStart(c, i, j), SectorsOf(c, i)[j].unitCount).bytesRead
    ELSE 85

\* the unit indices whose bit is set in 85 bytes
BitsSet(bitmap) ==
    {u \in 0..(8 * Len(bitmap) - 1) : (bitmap[(u \div 8) + 1] \div Pow2(u % 8)) % 2 = 1}

(***************************************************************************)
(* C17 .. C20                                                              *)
(***************************************************************************)

\* C17: a sector is written in list mode (bit 1 of its flags set) exactly
\* when the delta-varint encoding of its ascending unit indices is shorter
\* than 85 bytes; its presence payload is then that encoding, and else a
\* bitmap of 85 bytes with the bits of its unit indices; the coordinate
\* stream fills the rest of the blob.
C17_ListModeIffShorterThanBitmap ==
    BufferReturned
    => \A i \in 1..Len(File.outwardIndex) : \A j \in 1..Len(SectorsOf(File, i)) :
          LET entry == SectorsOf(File, i)[j]
              indices == AscendingIndices(SectorAt(OutwardAt(i), j))
              list == encodeDeltaSequence(indices).bytes
              start == BlobStart(File, i, j)
          IN /\ (BitAnd(entry.flags, 2) # 0) <=> (Len(list) < 85)
             /\ Len(list) < 85
                => /\ Slice(encoded.bytes, start, start + Len(list)) = list
                   /\ BlobEnd(File, i, j) = start + Len(list) + CoordinateBytes(entry)
             /\ Len(list) >= 85
                => /\ BitsSet(Slice(encoded.bytes, start, start + 85))
                        = {indices[k] : k \in 1..Len(indices)}
                   /\ BlobEnd(File, i, j) = start + 85 + CoordinateBytes(entry)

\* C17 happens: a buffer was returned that holds a sector whose list would
\* take 85 bytes, written as a bitmap
C17_Witness ==
    /\ BufferReturned
    /\ \E i \in 1..Len(File.outwardIndex) : \E j \in 1..Len(SectorsOf(File, i)) :
          /\ BitAnd(SectorsOf(File, i)[j].flags, 2) = 0
          /\ Len(encodeDeltaSequence(AscendingIndices(SectorAt(OutwardAt(i), j))).bytes) = 85

\* the length of the block written for the i-th outward
WrittenBlockLength(i) ==
    Len(writeOutwardBlock(OutwardAt(i), globalLatOffset, globalLonOffset).bytes)

\* C18: every offset of the file is the position of what was written: the
\* i-th outward's sector_index_offset is 32 + 9 * outward_count plus the
\* lengths of the blocks written before it, and is the previous block's start
\* plus 14 * sector_count plus the lengths of its blobs; the buffer ends where
\* the last block ends; units_rel_off is 14 * sector_count for the first
\* sector of a block and the previous one plus the previous blob's length
\* (presence payload plus coordinate bytes) for each later sector.
C18_OffsetsAreWhereTheDataIs ==
    BufferReturned
    => /\ Len(File.outwardIndex) = Len(outwardData)
       /\ \A i \in 1..Len(File.outwardIndex) :
             File.outwardIndex[i].sectorIndexOffset
               = 32 + 9 * Len(File.outwardIndex)
                 + SumSeq([n \in 1..(i - 1) |-> WrittenBlockLength(n)])
       /\ Len(encoded.bytes)
            = 32 + 9 * Len(File.outwardIndex)
              + SumSeq([n \in 1..Len(File.outwardIndex) |-> WrittenBlockLength(n)])
       /\ \A i \in 1..Len(File.outwardIndex) : \A j \in 1..Len(SectorsOf(File, i)) :
             /\ SectorsOf(File, i)[j].unitsRelOff
                  = (IF j = 1 THEN 14 * File.outwardIndex[i].sectorCount
                     ELSE SectorsOf(File, i)[j - 1].unitsRelOff
                          + PresenceBytes(File, i, j - 1)
                          + CoordinateBytes(SectorsOf(File, i)[j - 1]))
             /\ BlobEnd(File, i, j)
                  = BlobStart(File, i, j) + PresenceBytes(File, i, j)
                    + CoordinateBytes(SectorsOf(File, i)[j])

\* C18 happens: a buffer was returned in which a block follows a block whose
\* coordinate streams do not end on a byte boundary of their own
C18_Witness ==
    /\ BufferReturned
    /\ Len(File.outwardIndex) >= 2
    /\ \E j \in 1..Len(SectorsOf(File, 1)) :
          (SectorsOf(File, 1)[j].unitCount
             * (SectorsOf(File, 1)[j].bitsLat + SectorsOf(File, 1)[j].bitsLon)) % 8 # 0

\* the unit indices of the list payload of a sector entry, as they decode
ListedIndices(c, i, j) ==
    decodeDeltaSequence(c.buffer, BlobStart(c, i, j), SectorsOf(c, i)[j].unitCount).values

\* the k-th record of the coordinate stream of a sector entry
StreamRecord(c, i, j, k) ==
    readCoordinateRecord(c, BlobStart(c, i, j) + PresenceBytes(c, i, j), k - 1,
                         SectorsOf(c, i)[j].bitsLat, SectorsOf(c, i)[j].bitsLon)

\* the sector tables of the file ascend strictly, the list payloads ascend
\* strictly, and the coordinate streams follow the ascending order of the
\* unit indices
SectorsAndUnitsAscend ==
    \A i \in 1..Len(File.outwardIndex) :
       /\ \A j \in 1..Len(SectorsOf(File, i)) : \A n \in 1..Len(SectorsOf(File, i)) :
             j < n => SectorsOf(File, i)[j].sectorNumber < SectorsOf(File, i)[n].sectorNumber
       /\ \A j \in 1..Len(SectorsOf(File, i)) :
             /\ BitAnd(SectorsOf(File, i)[j].flags, 2) # 0
                => \A k \in 1..Len(ListedIndices(File, i, j)) :
                      \A n \in 1..Len(ListedIndices(File, i, j)) :
                         k < n => ListedIndices(File, i, j)[k] < ListedIndices(File, i, j)[n]
             /\ \A k \in 1..SectorsOf(File, i)[j].unitCount :
                   StreamRecord(File, i, j, k)
                     = [latDelta |-> UnitAt(SectorAt(OutwardAt(i), j), k).latInt
                                     - SectorAt(OutwardAt(i), j).latMin,
                        lonDelta |-> UnitAt(SectorAt(OutwardAt(i), j), k).lonInt
                                     - SectorAt(OutwardAt(i), j).lonMin]

\* C19, as the claim states it: in a returned buffer the outward index entries
\* are in strictly ascending order of outward code (so pairwise distinct),
\* every sector table is in strictly ascending order of sector number, and
\* the units of every sector, in its list payload and in its coordinate
\* stream, are in strictly ascending order of unit index.
C19_FileIsStrictlyAscending ==
    BufferReturned
    => /\ \A i \in 1..Len(File.outwardIndex) : \A n \in 1..Len(File.outwardIndex) :
             i < n => StrLess(File.outwardIndex[i].outwardCode, File.outwardIndex[n].outwardCode)
       /\ SectorsAndUnitsAscend

\* a reader has been constructed on the returned buffer and has not been
\* queried yet
ReaderConstructed == DatabaseLoaded /\ query.op \in {"none", "encoderGetStats"}

\* what the reader finds for a unit index in a sector entry: [exists, rank]
\* and the byte where the coordinate stream starts
FoundUnit(c, i, j, unitIndex) ==
    IF BitAnd(SectorsOf(c, i)[j].flags, 2) # 0
    THEN findListUnit(c, c.outwardIndex[i], SectorsOf(c, i)[j], unitIndex)
    ELSE [exists |-> checkBitmapUnit(c, c.outwardIndex[i], SectorsOf(c, i)[j], unitIndex).exists,
          rank |-> checkBitmapUnit(c, c.outwardIndex[i], SectorsOf(c, i)[j], unitIndex).rank,
          streamStart |-> BlobStart(c, i, j) + 85]

\* C20: for every stored unit the rank the reader computes, by the bitmap's
\* popcount or by the binary search of the list, is the unit's position in
\* the ascending order of its sector, and the record readCoordinateRecord
\* reads at that rank is the unit's pair of deltas from the sector's minimum.
C20_RankIsThePositionOfTheUnit ==
    ReaderConstructed
    => \A i \in 1..Len(client.outwardIndex) : \A j \in 1..Len(SectorsOf(client, i)) :
          \A k \in 1..Len(SectorAt(OutwardAt(i), j).units) :
             LET sector == SectorAt(OutwardAt(i), j)
                 unit == UnitAt(sector, k)
                 found == FoundUnit(client, i, j, unit.unitIndex)
             IN /\ found # Thrown
                /\ found.exists
                /\ found.rank = k - 1
                /\ readCoordinateRecord(client, found.streamStart, found.rank,
                                        SectorsOf(client, i)[j].bitsLat,
                                        SectorsOf(client, i)[j].bitsLon)
                     = [latDelta |-> unit.latInt - sector.latMin,
                        lonDelta |-> unit.lonInt - sector.lonMin]

\* C20 happens: a reader stands on a buffer that holds a bitmap sector, a list
\* sector of several units and a sector whose two widths are 0
C20_Witness ==
    /\ ReaderConstructed
    /\ \E i \in 1..Len(client.outwardIndex) : \E j \in 1..Len(SectorsOf(client, i)) :
          BitAnd(SectorsOf(client, i)[j].flags, 2) = 0
    /\ \E i \in 1..Len(client.outwardIndex) : \E j \in 1..Len(SectorsOf(client, i)) :
          /\ SectorsOf(client, i)[j].bitsLat = 0
          /\ SectorsOf(client, i)[j].bitsLon = 0
          /\ SectorsOf(client, i)[j].unitCount > 0

(***************************************************************************)
(* C21 .. C30                                                              *)
(***************************************************************************)

\* the unit indices the encoder holds for the j-th sector of the i-th outward
StoredIndices(i, j) ==
    {SectorAt(OutwardAt(i), j).units[k].unitIndex :
        k \in 1..Len(SectorAt(OutwardAt(i), j).units)}

\* C21: in every bitmap sector of a returned buffer the presence payload is
\* 85 bytes in which bit i (byte i >> 3, bit i & 7), for i in 0..679, is set
\* exactly when a unit of index i is stored in the sector: unit_count bits are
\* set and the bits 676..679 are 0.
C21_BitmapBitsAreTheStoredUnits ==
    BufferReturned
    => \A i \in 1..Len(File.outwardIndex) : \A j \in 1..Len(SectorsOf(File, i)) :
          BitAnd(SectorsOf(File, i)[j].flags, 2) = 0
          => LET bitmap == Slice(encoded.bytes, BlobStart(File, i, j), BlobStart(File, i, j) + 85)
             IN /\ Len(bitmap) = 85
                /\ BlobEnd(File, i, j) - BlobStart(File, i, j)
                     = 85 + CoordinateBytes(SectorsOf(File, i)[j])
                /\ \A u \in 0..679 :
                      ((bitmap[(u \div 8) + 1] \div Pow2(u % 8)) % 2 = 1)
                      <=> u \in StoredIndices(i, j)
                /\ Cardinality(BitsSet(bitmap)) = SectorsOf(File, i)[j].unitCount
                /\ BitsSet(bitmap) \cap (676..679) = {}

\* C21 happens: a returned buffer holds a bitmap sector with a unit in the
\* last byte of the bitmap, the byte of the bits 672..679
C21_Witness ==
    /\ BufferReturned
    /\ \E i \in 1..Len(File.outwardIndex) : \E j \in 1..Len(SectorsOf(File, i)) :
          /\ BitAnd(SectorsOf(File, i)[j].flags, 2) = 0
          /\ StoredIndices(i, j) \cap (672..675) # {}

\* a difference d, as Difference holds it, is smaller than 2^b
Fits(d, b) == IF d < 0 THEN b >= 32 ELSE b >= 31 \/ d < Pow2(b)

\* the differences of the units of a sector from its minimum
LatDifferences(x) == {Difference(x.units[k].latInt, x.latMin) : k \in 1..Len(x.units)}
LonDifferences(x) == {Difference(x.units[k].lonInt, x.lonMin) : k \in 1..Len(x.units)}

\* b is 0 when the largest of the differences is 0, else the least width
\* that holds the largest
IsLeastWidth(b, differences) ==
    /\ \A d \in differences : Fits(d, b)
    /\ b > 0 => \E d \in differences : ~Fits(d, b - 1)

\* C22, as the claim states it: in every sector of a returned buffer every
\* unit's lat_delta and lon_delta is non-negative and smaller than 2^bits_lat
\* and 2^bits_lon, each width is the least that holds the largest delta (0
\* when that is 0), and the widths the reader unpacks from the flags word
\* are the widths the encoder wrote the coordinate stream with.
C22_WidthsAreLeastAndReadBack ==
    BufferReturned
    => \A i \in 1..Len(File.outwardIndex) : \A j \in 1..Len(SectorsOf(File, i)) :
          LET sector == SectorAt(OutwardAt(i), j)
              entry == SectorsOf(File, i)[j]
          IN /\ \A k \in 1..Len(sector.units) :
                   /\ sector.units[k].latInt >= sector.latMin
                   /\ sector.units[k].lonInt >= sector.lonMin
             /\ IsLeastWidth(bitsLatOf(sector), LatDifferences(sector))
             /\ IsLeastWidth(bitsLonOf(sector), LonDifferences(sector))
             /\ entry.bitsLat = bitsLatOf(sector)
             /\ entry.bitsLon = bitsLonOf(sector)

\* the sectors the encoder holds
HeldSectors ==
    {outwardData[i].sectors[j] : <<i, j>> \in
        {p \in (1..Len(outwardData)) \X (0..9 \cup {10}) :
            p[2] \in 1..Len(outwardData[p[1]].sectors)}}

\* a sector's base does not fit in signed 24 bits, or a delta of one of its
\* units needs more than 31 bits
BaseOverflows(x) ==
    \/ x.latMin - globalLatOffset > 8388607
    \/ x.lonMin - globalLonOffset > 8388607
WidthOverflows(x) ==
    \/ \E d \in LatDifferences(x) : ~Fits(d, 31)
    \/ \E d \in LonDifferences(x) : ~Fits(d, 31)

\* C23, as the claim states it: in every returned buffer each base_lat_stored
\* and base_lon_stored is in 0..2^23 - 1 and each width is at most 31, and
\* encodeFromRecords throws when a sector's base does not fit in signed 24
\* bits or a delta needs more than 31 bits.
C23_OverflowIsAnError ==
    /\ BufferReturned
       => /\ \A i \in 1..Len(File.outwardIndex) : \A j \in 1..Len(SectorsOf(File, i)) :
                /\ SectorsOf(File, i)[j].baseLatStored \in 0..8388607
                /\ SectorsOf(File, i)[j].baseLonStored \in 0..8388607
          /\ \A x \in HeldSectors : bitsLatOf(x) <= 31 /\ bitsLonOf(x) <= 31
    /\ (encoded.tag # "none" /\ \E x \in HeldSectors : BaseOverflows(x) \/ WidthOverflows(x))
       => encoded.tag = "throw"

\* the units the encoder holds
HeldUnits == UNION {{x.units[k] : k \in 1..Len(x.units)} : x \in HeldSectors}

\* C24: the header's lat_offset is the least quantized latitude of the stored
\* units and its lon_offset the least quantized longitude, each on its own,
\* so no stored unit lies below either; both are 0 when nothing is stored.
C24_OffsetsAreTheMinima ==
    BufferReturned
    => IF HeldUnits = {}
       THEN File.header.latOffset = 0 /\ File.header.lonOffset = 0
       ELSE /\ \E u \in HeldUnits : u.latInt = File.header.latOffset
            /\ \E u \in HeldUnits : u.lonInt = File.header.lonOffset
            /\ \A u \in HeldUnits :
                  u.latInt >= File.header.latOffset /\ u.lonInt >= File.header.lonOffset

\* C24 happens: a buffer was returned for units of which one has the least
\* latitude and another the least longitude
C24_Witness ==
    /\ BufferReturned
    /\ HeldUnits # {}
    /\ \A u \in HeldUnits :
          ~(u.latInt = File.header.latOffset /\ u.lonInt = File.header.lonOffset)

\* a varint call returned the number it was given: a number below 2^31, and
\* the integer that is its value
IsTheNumber(result, v) == v.high = 0 /\ result = v.low31

\* C25, as the claim states it: decodeDeltaSequence(encodeDeltaSequence(xs),
\* 0, length of xs) returns xs, and as bytesRead the length of the encoded
\* buffer, for every non-decreasing list xs of numbers below 2^32; and
\* decode(encode(v), 0) returns v with bytesRead the length of encode(v).
C25_VarintsAreReadBack ==
    /\ (varintCall.op = "decode" /\ varintCall.value.high <= 1)
       => /\ varintCall.result # Thrown
          /\ IsTheNumber(varintCall.result.value, varintCall.value)
          /\ varintCall.result.bytesRead = Len(varintCall.buffer)
    /\ varintCall.op = "decodeDeltaSequence"
       => /\ varintCall.result # Thrown
          /\ Len(varintCall.result.values) = Len(varintCall.values)
          /\ \A i \in 1..Len(varintCall.values) :
                IsTheNumber(varintCall.result.values[i], varintCall.values[i])
          /\ varintCall.result.bytesRead = Len(varintCall.buffer)

\* 1 for 0, else 1 + floor(log2(v) / 7): the least n with v < 2^(7n)
LengthByTheFormula(v) ==
    IF v.high > 0 THEN 5
    ELSE CHOOSE n \in 1..5 :
            /\ n = 5 \/ v.low31 < Pow2(7 * n)
            /\ n > 1 => v.low31 >= Pow2(7 * (n - 1))

\* C26, as the claim states it: getByteLength(v) is the number of bytes
\* encode(v) produces, 1 for 0 and else 1 + floor(log2(v) / 7), for every
\* integer v >= 0; and the list size chooseSectorMode computes is the
\* number of bytes encodeDeltaSequence writes for the same unit indices.
C26_ByteLengthIsTheEncodedLength ==
    /\ varintCall.op = "getByteLength"
       => /\ varintCall.result = LengthByTheFormula(varintCall.value)
          /\ varintCall.result = Len(EncodeNumber(varintCall.value).bytes)
    /\ (varintCall.op = "chooseSectorMode" /\ varintCall.values # <<>>)
       => varintCall.result.listByteSize = Len(encodeDeltaSequence(varintCall.values).bytes)

\* the input has, upper-cased and without its whitespace, four characters or
\* more, the last three a digit and two letters A-Z
IsWellFormed(s) ==
    /\ Len(Canonical(s)) >= 4
    /\ Canonical(s)[Len(Canonical(s)) - 2] \in 48..57
    /\ Canonical(s)[Len(Canonical(s)) - 1] \in 65..90
    /\ Canonical(s)[Len(Canonical(s))] \in 65..90

\* C27: parsePostcode returns a parse exactly when the input, upper-cased and
\* stripped of whitespace, has at least 4 characters whose last three are a
\* digit and two letters A-Z; the parse has that digit as its sector,
\* 26 * (c1 - "A") + (c2 - "A"), in 0..675, as its unit index and the
\* non-empty prefix before the last three characters as its outward. It
\* returns null in every other case and never throws.
C27_NormalizerParsesTheWellFormed ==
    parseCall.op = "parsePostcode"
    => IF IsWellFormed(parseCall.arg)
       THEN LET n == Canonical(parseCall.arg)
            IN /\ parseCall.result \notin {Null, Thrown}
               /\ parseCall.result.sector = n[Len(n) - 2] - 48
               /\ parseCall.result.sector \in 0..9
               /\ parseCall.result.unitIndex = 26 * (n[Len(n) - 1] - 65) + (n[Len(n)] - 65)
               /\ parseCall.result.unitIndex \in 0..675
               /\ parseCall.result.outward = SubSeq(n, 1, Len(n) - 3)
               /\ parseCall.result.outward # <<>>
       ELSE parseCall.result = Null

\* C27 happens: a string with a lower-case letter and a space was parsed, to
\* the last unit index
C27_Witness ==
    /\ parseCall.op = "parsePostcode"
    /\ parseCall.result # Null
    /\ \E i \in 1..Len(parseCall.arg) : parseCall.arg[i] = 98
    /\ \E i \in 1..Len(parseCall.arg) : parseCall.arg[i] = 32
    /\ parseCall.result.unitIndex = 675

\* new PostcodeClient was called with the buffer the encoder returned
ConstructorCalledOnReturnedBuffer ==
    /\ encoded.tag = "buffer"
    /\ client.tag \in {"client", "throw"}
    /\ client.buffer = encoded.bytes

\* the Normalizer parses the postcode of some input record
SomeRecordParses == \E i \in 1..Len(records) : parsePostcode(records[i].postcode) # Null

\* C28: the reader is constructed on the buffer encodeFromRecords(xs) returns
\* exactly when some record of xs has a parseable postcode; with none, the
\* buffer is the 32 bytes of a header with outward count 0, total unit count
\* 0 and both offsets 0, and the reader rejects it for its outward count.
C28_ReaderNeedsAParseableRecord ==
    /\ ConstructorCalledOnReturnedBuffer
       => /\ (client.tag = "client") <=> SomeRecordParses
          /\ client.tag = "throw"
             => /\ parseHeader(encoded.bytes).magic = MAGIC
                /\ parseHeader(encoded.bytes).version = 3
                /\ ~validateHeader(parseHeader(encoded.bytes))
    /\ (encoded.tag # "none" /\ ~SomeRecordParses)
       => /\ encoded.tag = "buffer"
          /\ Len(encoded.bytes) = 32
          /\ parseHeader(encoded.bytes).outwardCount = 0
          /\ parseHeader(encoded.bytes).totalUnitCount = 0
          /\ parseHeader(encoded.bytes).latOffset = 0
          /\ parseHeader(encoded.bytes).lonOffset = 0

\* C28 happens: the reader rejected the buffer returned for records of which
\* none has a parseable postcode
C28_Witness ==
    /\ ConstructorCalledOnReturnedBuffer
    /\ client.tag = "throw"
    /\ records # <<>>
    /\ ~SomeRecordParses

\* the longest list of which every order is tried; of a longer list the
\* reversal and the rotation by one are tried
MaxPermuted == 4

\* the orders a list of n records is given in
Orders(n) ==
    IF n <= MaxPermuted THEN Permutations(1..n)
    ELSE {[i \in 1..n |-> n + 1 - i], [i \in 1..n |-> (i % n) + 1]}

\* the records in the order p
Reordered(recs, p) == [i \in 1..Len(recs) |-> recs[p[i]]]

\* no two records whose postcodes parse to the same outward, sector and unit
HasDistinctKeys(recs) ==
    \A i, j \in 1..Len(recs) :
       (i < j /\ parsePostcode(recs[i].postcode) # Null)
          => parsePostcode(recs[i].postcode) # parsePostcode(recs[j].postcode)

\* C29: for records with pairwise distinct parsed keys, encodeFromRecords
\* returns the same bytes for the records in every order.
C29_BufferIsTheSameInEveryOrder ==
    (BufferReturned /\ query.op = "none" /\ HasDistinctKeys(records))
       => \A p \in Orders(Len(records)) :
             encodeFromRecords(<<>>, Reordered(records, p)).result = encoded

\* C29 happens: a buffer was returned for records of two outwards and of two
\* units of one sector, given with neither in ascending order
C29_Witness ==
    /\ BufferReturned
    /\ HasDistinctKeys(records)
    /\ \E i, j \in 1..Len(records) :
          /\ i < j
          /\ parsePostcode(records[i].postcode) # Null
          /\ parsePostcode(records[j].postcode) # Null
          /\ StrLess(parsePostcode(records[j].postcode).outward,
                     parsePostcode(records[i].postcode).outward)
    /\ \E i, j \in 1..Len(records) :
          /\ i < j
          /\ parsePostcode(records[i].postcode) # Null
          /\ parsePostcode(records[j].postcode) # Null
          /\ parsePostcode(records[i].postcode).outward = parsePostcode(records[j].postcode).outward
          /\ parsePostcode(records[i].postcode).sector = parsePostcode(records[j].postcode).sector
          /\ parsePostcode(records[j].postcode).unitIndex < parsePostcode(records[i].postcode).unitIndex

\* the keys the Normalizer parses from the postcodes of records
KeysOf(recs) ==
    {parsePostcode(recs[i].postcode) : i \in 1..Len(recs)} \ {Null}

\* the last call was an encode() that read its file
EncodeReturned == encodeCall.op = "encode" /\ encodeCall.file # NoFile

\* C30: encode() keeps what the encoder holds: it returns what
\* encodeFromRecords returns for the records held followed by the rows of
\* the CSV, so a second encode() in a row on the same file returns the bytes
\* of the first; encodeFromRecords returns what it returns on a new encoder.
C30_EncodeKeepsWhatIsHeld ==
    /\ EncodeReturned
       => /\ encoded = encodeFromRecords(<<>>, encodeCall.held \o readCsvFile(encodeCall.file)).result
          /\ encodeCall.repeated => encoded = encodeCall.previous
    /\ encodeCall.op = "encodeFromRecords"
       => encoded = encodeFromRecords(<<>>, records).result

\* C30 happens: encode() returned a buffer on an encoder that held a record
\* the file has not, for a file with a row the encoder did not hold
C30_Witness ==
    /\ EncodeReturned
    /\ encoded.tag = "buffer"
    /\ KeysOf(encodeCall.held) \ KeysOf(readCsvFile(encodeCall.file)) # {}
    /\ KeysOf(readCsvFile(encodeCall.file)) \ KeysOf(encodeCall.held) # {}

====
